--------------------------- MODULE MCParityFixtures ---------------------------
(* The suite of the repository; files of every kind of producer may change. *)
EXTENDS ParityFixtures, ParityHeaders

MCFamilies ==
    [family \in DOMAIN HEADER_SPECS |->
        [fixtures |-> HEADER_SPECS[family], reads |-> Generator(family)]]
===============================================================================
