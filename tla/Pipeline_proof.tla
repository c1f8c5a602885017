--------------------------- MODULE Pipeline_proof ---------------------------
(* Proofs about the pipeline for every set of callers, handles, kinds and  *)
(* matrices, and pipelines of any length.                                  *)
EXTENDS Pipeline, TLAPS

USE PipelineAssumption

LEMMA MatrixCols == ASSUME NEW x \in Matrix PROVE Cols(x) \in Nat \ {0}
  BY DEF Matrix, Cols

LEMMA FittedStateType ==
    ASSUME NEW kind \in AllKinds, NEW x \in Matrix, NEW n \in Nat
    PROVE  FittedState(kind, x, n) \in OperatorState
  <1>1. FittedScale(kind, Cols(x)) \in Nat
    BY MatrixCols DEF FittedScale
  <1> QED
    BY <1>1 DEF FittedState, OperatorState

(* The parts of a call are what Enters put there. *)
LEMMA CallParts ==
    ASSUME TypeOK, NEW c \in Callers, call[c] # Idle
    PROVE  /\ Pipe(c) \in Handles /\ Arg(c) \in Matrix
           /\ call[c][1] \in {"check", "fit", "transform"}
           /\ call[c] = <<call[c][1], Pipe(c), Arg(c)>>
  BY DEF TypeOK, CallTypes, Calls, Pipe, Arg

LEMMA EntryIsNotIdle ==
    ASSUME NEW name, NEW h, NEW x PROVE <<name, h, x>> # Idle
  BY DEF Idle

LEMMA TypeInit == Init => TypeOK
  BY DEF Init, TypeOK, ObjectTypes, CallTypes, Calls, Idle, Output, Codes

LEMMA ReturnsType ==
    ASSUME CallTypes, NEW c \in Callers, NEW code \in Codes, NEW v \in Output,
           Returns(c, code, v)
    PROVE  CallTypes'
  BY DEF CallTypes, Returns, Calls

LEMMA EntersType ==
    ASSUME CallTypes, NEW c \in Callers, NEW name \in {"check", "fit", "transform"},
           NEW h \in Handles, NEW x \in Matrix, Enters(c, name, h, x)
    PROVE  CallTypes'
  <1>1. <<name, h, x>> \in Calls /\ Untouched \in Output /\ "OK" \in Codes
    BY DEF Calls, Output, Codes
  <1> QED
    BY <1>1 DEF CallTypes, Enters

LEMMA AssignType ==
    ASSUME ObjectTypes, NEW h \in Handles, NEW e \in Seq(AllKinds),
           NEW s \in Seq(OperatorState), NEW n \in Nat, NEW f \in BOOLEAN,
           Len(s) <= Len(e), Assign(h, e, s, n, f), live' \subseteq Handles
    PROVE  ObjectTypes'
  BY DEF ObjectTypes, Assign

LEMMA UnchangedObjects == ObjectTypes /\ UNCHANGED objVars => ObjectTypes'
  BY DEF ObjectTypes, objVars

LEMMA Constants == /\ Untouched \in Output /\ "OK" \in Codes
                   /\ "NOT_FITTED" \in Codes /\ "ERROR" \in Codes
  BY DEF Output, Codes

LEMMA Emptied ==
    ASSUME ObjectTypes, NEW h \in Handles, NEW f \in BOOLEAN,
           Assign(h, <<>>, <<>>, 0, f), live' \subseteq Handles
    PROVE  ObjectTypes'
  <1>1. <<>> \in Seq(AllKinds) /\ <<>> \in Seq(OperatorState) /\ Len(<<>>) <= Len(<<>>)
    OBVIOUS
  <1> QED
    BY <1>1, AssignType

LEMMA Unfitted ==
    ASSUME ObjectTypes, NEW h \in Handles,
           Assign(h, entries[h], <<>>, n_features[h], FALSE), UNCHANGED live
    PROVE  ObjectTypes'
  <1>1. /\ entries[h] \in Seq(AllKinds) /\ <<>> \in Seq(OperatorState)
        /\ n_features[h] \in Nat /\ live' \subseteq Handles /\ Len(<<>>) <= Len(entries[h])
    BY DEF ObjectTypes
  <1> QED
    BY <1>1, AssignType

(* That the states never outnumber the entries takes more than the types:  *)
(* fit's loop has pushed one for each of its turns.                        *)
LEMMA TypeStep == InductiveInv /\ [Next]_plVars => TypeOK'
  <1> SUFFICES ASSUME InductiveInv, ObjectTypes, CallTypes, [Next]_plVars
               PROVE  ObjectTypes' /\ CallTypes'
    BY DEF InductiveInv, TypeOK
  <1> USE Constants
  <1>0. TypeOK
    BY DEF TypeOK
  <1>1. CASE UNCHANGED plVars
    BY <1>1 DEF ObjectTypes, CallTypes, plVars, objVars, callVars
  <1>2. ASSUME NEW c \in Callers, Refused(c) \/ Throws(c) PROVE ObjectTypes' /\ CallTypes'
    BY <1>2, ReturnsType, UnchangedObjects DEF Refused, Throws
  <1>3. ASSUME NEW c \in Callers, NEW h \in Handles, ManageHandle(c, h)
        PROVE  ObjectTypes' /\ CallTypes'
    <2>1. CASE Create(c, h) \/ Destroy(c, h)
      <3>1. live' \subseteq Handles /\ Assign(h, <<>>, <<>>, 0, FALSE)
            /\ Returns(c, "OK", Untouched)
        BY <2>1 DEF Create, Destroy, ObjectTypes
      <3> QED
        BY <3>1, ReturnsType, Emptied
    <2>2. ASSUME NEW src \in Handles, Clone(c, src, h) PROVE ObjectTypes' /\ CallTypes'
      <3>1. /\ live' \subseteq Handles
            /\ Assign(h, entries[src], states[src], n_features[src], fitted[src])
            /\ Returns(c, "OK", Untouched)
        BY <2>2 DEF Clone, ObjectTypes
      <3>2. /\ entries[src] \in Seq(AllKinds) /\ states[src] \in Seq(OperatorState)
            /\ n_features[src] \in Nat /\ fitted[src] \in BOOLEAN
            /\ Len(states[src]) <= Len(entries[src])
        BY DEF ObjectTypes
      <3> QED
        BY <3>1, <3>2, ReturnsType, AssignType
    <2>3. ASSUME NEW kind \in Kinds, AddOperator(c, h, kind) PROVE ObjectTypes' /\ CallTypes'
      <3>1. /\ live' \subseteq Handles
            /\ Assign(h, Append(entries[h], kind), <<>>, n_features[h], FALSE)
            /\ Returns(c, "OK", Untouched)
        BY <2>3 DEF AddOperator, ObjectTypes
      <3>2. /\ Append(entries[h], kind) \in Seq(AllKinds) /\ <<>> \in Seq(OperatorState)
            /\ n_features[h] \in Nat /\ Len(<<>>) <= Len(Append(entries[h], kind))
        BY DEF ObjectTypes
      <3> QED
        BY <3>1, <3>2, ReturnsType, AssignType
    <2> QED
      BY <1>3, <2>1, <2>2, <2>3 DEF ManageHandle
  <1>4. ASSUME NEW c \in Callers, NEW h \in Handles, NEW x \in Matrix, BeginCall(c, h, x)
        PROVE  ObjectTypes' /\ CallTypes'
    <2>1. CASE BeginFit(c, h, x)
      <3>1. /\ Enters(c, "check", h, x)
            /\ Assign(h, entries[h], <<>>, n_features[h], FALSE) /\ UNCHANGED live
        BY <2>1 DEF BeginFit
      <3> QED
        BY <3>1, EntersType, Unfitted
    <2>2. ASSUME NEW views \in BOOLEAN, BeginTransform(c, h, x, views)
          PROVE  ObjectTypes' /\ CallTypes'
      <3>1. \/ Returns(c, "NOT_FITTED", Untouched) \/ Returns(c, "ERROR", Untouched)
            \/ Enters(c, "transform", h, x)
        BY <2>2 DEF BeginTransform
      <3>2. UNCHANGED objVars
        BY <2>2 DEF BeginTransform
      <3> QED
        BY <3>1, <3>2, ReturnsType, EntersType, UnchangedObjects
    <2> QED
      BY <1>4, <2>1, <2>2 DEF BeginCall
  <1>5. ASSUME NEW c \in Callers, Loops(c) PROVE ObjectTypes' /\ CallTypes'
    <2> DEFINE h == Pipe(c)
    <2>0. call[c] # Idle /\ h \in Handles /\ Arg(c) \in Matrix
      BY <1>0, <1>5, CallParts
         DEF Loops, CheckFit, FitOperator, EndFit, TransformOperator, EndTransform, In
    <2>1. ASSUME NEW views \in BOOLEAN, NEW y \in BOOLEAN, CheckFit(c, views, y)
          PROVE  ObjectTypes' /\ CallTypes'
      <3>1. UNCHANGED objVars
        BY <2>1 DEF CheckFit
      <3>2. Enters(c, "fit", h, Arg(c)) \/ Returns(c, "ERROR", Untouched)
        BY <2>1 DEF CheckFit
      <3> QED
        BY <2>0, <3>1, <3>2, ReturnsType, EntersType, UnchangedObjects
    <2>2. CASE FitOperator(c)
      <3> DEFINE state == FittedState(entries[h][step[c] + 1], Arg(c), Len(current[c]))
      <3>1. ASSUME entries[h][step[c] + 1] \in FitImplements,
                   states' = [states EXCEPT ![h] = Append(@, state)],
                   current' = [current EXCEPT ![c] = Append(@, state)],
                   step' = [step EXCEPT ![c] = @ + 1],
                   UNCHANGED <<live, entries, n_features, fitted, call, out, status>>
            PROVE  ObjectTypes' /\ CallTypes'
        <4>1. state \in OperatorState
          BY <2>0, <3>1, FittedStateType DEF CallTypes, FitImplements
        <4>2. current' \in [Callers -> Seq(OperatorState)]
          BY <3>1, <4>1 DEF CallTypes
        <4>3. states' \in [Handles -> Seq(OperatorState)]
          BY <2>0, <3>1, <4>1 DEF ObjectTypes
        <4>4. Len(states[h]) < Len(entries[h])
          BY <2>2 DEF FitOperator, InductiveInv, CallInv, FittedSoFar
        <4>5. \A g \in Handles : Len(states[g])' <= Len(entries[g])'
          BY <2>0, <3>1, <4>1, <4>4 DEF ObjectTypes
        <4> QED
          BY <3>1, <4>2, <4>3, <4>5 DEF ObjectTypes, CallTypes
      <3>2. ASSUME Assign(h, entries[h], <<>>, n_features[h], FALSE), UNCHANGED live,
                   Returns(c, "ERROR", Untouched)
            PROVE  ObjectTypes' /\ CallTypes'
        BY <2>0, <3>2, ReturnsType, Unfitted
      <3> QED
        BY <2>2, <3>1, <3>2 DEF FitOperator
    <2>3. CASE EndFit(c)
      <3>1. /\ Assign(h, entries[h], states[h], Cols(Arg(c)), TRUE)
            /\ live' \subseteq Handles /\ Returns(c, "OK", Untouched)
        BY <2>3 DEF EndFit, ObjectTypes
      <3>2. /\ entries[h] \in Seq(AllKinds) /\ states[h] \in Seq(OperatorState)
            /\ Cols(Arg(c)) \in Nat /\ Len(states[h]) <= Len(entries[h])
        BY <2>0, MatrixCols DEF ObjectTypes
      <3> QED
        BY <2>0, <3>1, <3>2, ReturnsType, AssignType
    <2>4. CASE TransformOperator(c)
      <3>1. UNCHANGED objVars
        BY <2>4 DEF TransformOperator
      <3>2. states[h][step[c] + 1] \in OperatorState
        BY <2>0, <2>4 DEF TransformOperator, ObjectTypes, CallTypes
      <3>3. CASE Returns(c, "ERROR", Untouched)
        BY <3>1, <3>3, ReturnsType, UnchangedObjects
      <3>4. ASSUME current' = [current EXCEPT ![c] = Append(@, states[h][step[c] + 1])],
                   step' = [step EXCEPT ![c] = @ + 1], UNCHANGED <<call, out, status>>
            PROVE  ObjectTypes' /\ CallTypes'
        <4>1. current' \in [Callers -> Seq(OperatorState)]
          BY <3>2, <3>4 DEF CallTypes
        <4> QED
          BY <3>1, <3>4, <4>1, UnchangedObjects DEF CallTypes
      <3> QED
        BY <2>4, <3>3, <3>4 DEF TransformOperator
    <2>5. CASE EndTransform(c)
      <3>1. [data |-> Arg(c), through |-> current[c]] \in Output
        BY <2>0 DEF Output, CallTypes
      <3> QED
        BY <2>5, <3>1, ReturnsType, UnchangedObjects DEF EndTransform
    <2> QED
      BY <1>5, <2>1, <2>2, <2>3, <2>4, <2>5 DEF Loops
  <1> QED
    BY <1>1, <1>2, <1>3, <1>4, <1>5 DEF Next

-----------------------------------------------------------------------------
(* A caller none of whose variables a step touches, and one whose pipeline *)
(* it does not touch either.                                               *)
Bystander(d) == /\ call'[d] = call[d] /\ step'[d] = step[d]
                /\ current'[d] = current[d] /\ out'[d] = out[d]
SamePipe(h) == /\ entries'[h] = entries[h] /\ states'[h] = states[h]
               /\ n_features'[h] = n_features[h] /\ fitted'[h] = fitted[h]

LEMMA BystanderKeeps ==
    ASSUME InductiveInv, NEW d \in Callers, Bystander(d),
           call[d] # Idle => SamePipe(Pipe(d)) /\ Pipe(d) \in live'
    PROVE  CallInv(d)'
  <1>1. CallInv(d)
    BY DEF InductiveInv
  <1> QED
    BY <1>1 DEF CallInv, Bystander, SamePipe, Fitting, In, Pipe, Arg

LEMMA TrainedKept ==
    ASSUME NEW h \in Handles, Trained(h), SamePipe(h) PROVE Trained(h)'
  BY DEF Trained, SamePipe, FittedSoFar

LEMMA AfterAssign ==
    ASSUME TypeOK, NEW h \in Handles, NEW e, NEW s, NEW n, NEW f, Assign(h, e, s, n, f)
    PROVE  /\ \A g \in Handles \ {h} : SamePipe(g)
           /\ entries'[h] = e /\ states'[h] = s /\ n_features'[h] = n /\ fitted'[h] = f
  BY DEF TypeOK, ObjectTypes, Assign, SamePipe

LEMMA AfterReturn ==
    ASSUME InductiveInv, NEW c \in Callers, NEW code, NEW v, Returns(c, code, v),
           v = Untouched \/ code = "OK"
    PROVE  /\ \A d \in Callers \ {c} : Bystander(d)
           /\ CallInv(c)' /\ Exclusive' /\ ErrorWritesNothing' /\ call'[c] = Idle
  <1>1. /\ \A d \in Callers \ {c} : Bystander(d) /\ status'[d] = status[d]
        /\ call'[c] = Idle /\ step'[c] = 0 /\ current'[c] = <<>>
        /\ out'[c] = v /\ status'[c] = code
    BY DEF InductiveInv, TypeOK, CallTypes, Returns, Bystander
  <1>2. CallInv(c)'
    BY <1>1 DEF CallInv, In, Fitting
  <1>3. Exclusive'
    BY <1>1 DEF InductiveInv, Exclusive, Bystander, Fitting, In, Pipe
  <1>4. ErrorWritesNothing'
    BY <1>1 DEF InductiveInv, ErrorWritesNothing, Bystander
  <1> QED
    BY <1>1, <1>2, <1>3, <1>4

LEMMA AfterEnter ==
    ASSUME InductiveInv, NEW c \in Callers, NEW name \in {"check", "fit", "transform"},
           NEW h \in Handles, NEW x \in Matrix, Enters(c, name, h, x),
           \A d \in Callers \ {c} : call[d] # Idle /\ Pipe(d) = h =>
              name = "transform" /\ ~Fitting(d)
    PROVE  /\ \A d \in Callers \ {c} : Bystander(d)
           /\ Exclusive' /\ ErrorWritesNothing'
           /\ call'[c] = <<name, h, x>> /\ call'[c] # Idle
           /\ step'[c] = step[c] /\ current'[c] = current[c] /\ out'[c] = Untouched
  <1>1. /\ \A d \in Callers \ {c} : Bystander(d) /\ status'[d] = status[d]
        /\ call'[c] = <<name, h, x>> /\ call'[c] # Idle
        /\ step'[c] = step[c] /\ current'[c] = current[c] /\ out'[c] = Untouched
    BY EntryIsNotIdle DEF InductiveInv, TypeOK, CallTypes, Enters, Bystander
  <1>2. Exclusive'
    <2> SUFFICES ASSUME NEW a \in Callers, NEW b \in Callers, a # b, Fitting(a)', (call[b] # Idle)'
                 PROVE  (Pipe(a) # Pipe(b))'
      BY DEF Exclusive
    <2>1. CASE a # c /\ b # c
      BY <1>1, <2>1 DEF InductiveInv, Exclusive, Bystander, Fitting, In, Pipe
    <2>2. CASE a = c
      BY <1>1, <2>2 DEF Bystander, Fitting, In, Pipe
    <2>3. CASE b = c
      BY <1>1, <2>3 DEF Bystander, Fitting, In, Pipe
    <2> QED
      BY <2>1, <2>2, <2>3
  <1>3. ErrorWritesNothing'
    BY <1>1 DEF InductiveInv, ErrorWritesNothing, Bystander
  <1> QED
    BY <1>1, <1>2, <1>3

-----------------------------------------------------------------------------
(* The invariant but for its types, which TypeStep keeps. *)
Beyond == /\ TrainedInOneGo /\ Exclusive /\ ErrorWritesNothing
          /\ \A c \in Callers : CallInv(c)

LEMMA Unchangeds ==
    ASSUME InductiveInv, UNCHANGED objVars
    PROVE  TrainedInOneGo' /\ live' = live /\ \A h \in Handles : SamePipe(h)
  BY DEF objVars, InductiveInv, TrainedInOneGo, Trained, FittedSoFar, SamePipe

(* A call that returns without touching any pipeline. *)
LEMMA PlainReturn ==
    ASSUME InductiveInv, NEW c \in Callers, NEW code, NEW v, Returns(c, code, v),
           v = Untouched \/ code = "OK", UNCHANGED objVars
    PROVE  Beyond'
  <1>1. \A d \in Callers \ {c} : CallInv(d)'
    <2> TAKE d \in Callers \ {c}
    <2>1. call[d] # Idle => Pipe(d) \in Handles /\ Pipe(d) \in live
      BY CallParts DEF InductiveInv, CallInv
    <2> QED
      BY <2>1, AfterReturn, Unchangeds, BystanderKeeps
  <1> QED
    BY <1>1, AfterReturn, Unchangeds DEF Beyond

(* A call that gives pipeline h new contents and returns. *)
LEMMA AssigningReturn ==
    ASSUME InductiveInv, NEW c \in Callers, NEW h \in Handles, NEW e, NEW s, NEW n, NEW f,
           Assign(h, e, s, n, f), Returns(c, "OK", Untouched) \/ Returns(c, "ERROR", Untouched),
           \A d \in Callers \ {c} : call[d] # Idle => Pipe(d) # h /\ Pipe(d) \in live',
           f => \E x \in Matrix : n = Cols(x) /\ FittedSoFar(s, e, x, Len(e))
    PROVE  Beyond'
  <1>1. /\ \A d \in Callers \ {c} : Bystander(d)
        /\ CallInv(c)' /\ Exclusive' /\ ErrorWritesNothing'
    BY AfterReturn
  <1>2. /\ \A g \in Handles \ {h} : SamePipe(g)
        /\ entries'[h] = e /\ states'[h] = s /\ n_features'[h] = n /\ fitted'[h] = f
    BY AfterAssign DEF InductiveInv
  <1>3. \A d \in Callers \ {c} : CallInv(d)'
    <2> TAKE d \in Callers \ {c}
    <2>1. call[d] # Idle => Pipe(d) \in Handles \ {h} /\ Pipe(d) \in live'
      BY CallParts DEF InductiveInv
    <2> QED
      BY <2>1, <1>1, <1>2, BystanderKeeps
  <1>4. TrainedInOneGo'
    <2>1. \A g \in Handles \ {h} : Trained(g)'
      BY <1>2, TrainedKept DEF InductiveInv, TrainedInOneGo
    <2>2. Trained(h)'
      BY <1>2 DEF Trained, FittedSoFar
    <2> QED
      BY <2>1, <2>2 DEF TrainedInOneGo
  <1> QED
    BY <1>1, <1>3, <1>4 DEF Beyond

LEMMA ManageStep ==
    ASSUME InductiveInv, NEW c \in Callers, NEW h \in Handles, ManageHandle(c, h)
    PROVE  Beyond'
  <1>0. \A d \in Callers : call[d] # Idle => Pipe(d) \in live
    BY DEF InductiveInv, CallInv
  <1>1. CASE Create(c, h)
    <2>1. \A d \in Callers : call[d] # Idle => Pipe(d) # h /\ Pipe(d) \in live'
      BY <1>0, <1>1 DEF Create
    <2> QED
      BY <1>1, <2>1, AssigningReturn DEF Create
  <1>2. CASE Destroy(c, h)
    <2>1. \A d \in Callers : call[d] # Idle => Pipe(d) # h /\ Pipe(d) \in live'
      BY <1>0, <1>2 DEF Destroy, Unused
    <2> QED
      BY <1>2, <2>1, AssigningReturn DEF Destroy
  <1>3. ASSUME NEW src \in Handles, Clone(c, src, h) PROVE Beyond'
    <2>1. \A d \in Callers : call[d] # Idle => Pipe(d) # h /\ Pipe(d) \in live'
      BY <1>0, <1>3 DEF Clone
    <2>2. fitted[src] => \E x \in Matrix :
             n_features[src] = Cols(x) /\ FittedSoFar(states[src], entries[src], x, Len(entries[src]))
      BY DEF InductiveInv, TrainedInOneGo, Trained
    <2> QED
      BY <1>3, <2>1, <2>2, AssigningReturn DEF Clone
  <1>4. ASSUME NEW kind \in Kinds, AddOperator(c, h, kind) PROVE Beyond'
    <2>1. \A d \in Callers : call[d] # Idle => Pipe(d) # h /\ Pipe(d) \in live'
      BY <1>0, <1>4 DEF AddOperator, Unused
    <2> QED
      BY <1>4, <2>1, AssigningReturn DEF AddOperator
  <1> QED
    BY <1>1, <1>2, <1>3, <1>4 DEF ManageHandle

LEMMA BeginStep ==
    ASSUME InductiveInv, NEW c \in Callers, NEW h \in Handles, NEW x \in Matrix,
           BeginCall(c, h, x)
    PROVE  Beyond'
  <1>0. /\ \A d \in Callers : CallInv(d) /\ (call[d] # Idle => Pipe(d) \in live)
        /\ call[c] = Idle /\ h \in live
    BY DEF InductiveInv, CallInv, BeginCall, BeginFit, BeginTransform
  <1>1. step[c] = 0 /\ current[c] = <<>>
    BY <1>0 DEF CallInv, In, Fitting
  <1>2. CASE BeginFit(c, h, x)
    <2>1. /\ \A d \in Callers \ {c} : Bystander(d)
          /\ Exclusive' /\ ErrorWritesNothing'
          /\ call'[c] = <<"check", h, x>> /\ call'[c] # Idle
          /\ step'[c] = 0 /\ current'[c] = <<>> /\ out'[c] = Untouched
      BY <1>1, <1>2, AfterEnter DEF BeginFit, Unused
    <2>2. /\ \A g \in Handles \ {h} : SamePipe(g)
          /\ states'[h] = <<>> /\ fitted'[h] = FALSE
      BY <1>2, AfterAssign DEF BeginFit, InductiveInv
    <2>3. \A d \in Callers \ {c} : CallInv(d)'
      <3> TAKE d \in Callers \ {c}
      <3>1. call[d] # Idle => Pipe(d) \in Handles \ {h} /\ Pipe(d) \in live'
        BY <1>0, <1>2, CallParts DEF BeginFit, Unused, InductiveInv
      <3> QED
        BY <2>1, <2>2, <3>1, BystanderKeeps
    <2>4. CallInv(c)'
      BY <1>0, <1>2, <2>1, <2>2 DEF CallInv, In, Fitting, Pipe, BeginFit
    <2>5. TrainedInOneGo'
      BY <2>2, TrainedKept DEF TrainedInOneGo, InductiveInv, Trained
    <2> QED
      BY <2>1, <2>3, <2>4, <2>5 DEF Beyond
  <1>3. ASSUME NEW views \in BOOLEAN, BeginTransform(c, h, x, views) PROVE Beyond'
    <2>1. CASE Returns(c, "NOT_FITTED", Untouched) \/ Returns(c, "ERROR", Untouched)
      BY <1>3, <2>1, PlainReturn DEF BeginTransform
    <2>2. ASSUME fitted[h], Cols(x) = n_features[h], Enters(c, "transform", h, x) PROVE Beyond'
      <3>1. /\ \A d \in Callers \ {c} : Bystander(d)
            /\ Exclusive' /\ ErrorWritesNothing'
            /\ call'[c] = <<"transform", h, x>> /\ call'[c] # Idle
            /\ step'[c] = 0 /\ current'[c] = <<>> /\ out'[c] = Untouched
        BY <1>1, <1>3, <2>2, AfterEnter DEF BeginTransform, Unchanging
      <3>2. TrainedInOneGo' /\ live' = live /\ \A g \in Handles : SamePipe(g)
        BY <1>3, Unchangeds DEF BeginTransform
      <3>3. \A d \in Callers \ {c} : CallInv(d)'
        BY <1>0, <3>1, <3>2, CallParts, BystanderKeeps DEF InductiveInv
      <3>4. states[h] \in Seq(OperatorState)
        BY DEF InductiveInv, TypeOK, ObjectTypes
      <3>5. CallInv(c)'
        BY <1>0, <2>2, <3>1, <3>2, <3>4 DEF CallInv, In, Fitting, Pipe, Arg, SamePipe
      <3> QED
        BY <3>1, <3>2, <3>3, <3>5 DEF Beyond
    <2> QED
      BY <1>3, <2>1, <2>2 DEF BeginTransform
  <1> QED
    BY <1>2, <1>3 DEF BeginCall

(* The loops of fit: the caller is alone on its pipeline. *)
LEMMA AloneInFit ==
    ASSUME InductiveInv, NEW c \in Callers, Fitting(c)
    PROVE  /\ Pipe(c) \in Handles /\ Pipe(c) \in live /\ Arg(c) \in Matrix
           /\ \A d \in Callers \ {c} : call[d] # Idle => Pipe(d) # Pipe(c) /\ Pipe(d) \in live
  <1>1. call[c] # Idle
    BY DEF Fitting, In
  <1>2. \A d \in Callers \ {c} : call[d] # Idle => Pipe(d) # Pipe(c)
    BY DEF InductiveInv, Exclusive
  <1> QED
    BY <1>1, <1>2, CallParts DEF InductiveInv, CallInv

LEMMA FitStep ==
    ASSUME InductiveInv, NEW c \in Callers, FitOperator(c) \/ EndFit(c)
    PROVE  Beyond'
  <1> DEFINE h == Pipe(c)
             x == Arg(c)
             state == FittedState(entries[h][step[c] + 1], x, Len(current[c]))
  <1>1. In(c, "fit") /\ Fitting(c)
    BY DEF FitOperator, EndFit, Fitting
  <1>2. /\ h \in Handles /\ h \in live /\ x \in Matrix
        /\ \A d \in Callers \ {c} : call[d] # Idle => Pipe(d) # h /\ Pipe(d) \in live
    BY <1>1, AloneInFit
  <1>3. /\ step[c] <= Len(entries[h]) /\ current[c] = states[h]
        /\ FittedSoFar(states[h], entries[h], x, step[c])
        /\ ~fitted[h] /\ out[c] = Untouched
    BY <1>1, <1>2 DEF InductiveInv, CallInv, In
  <1>4. ASSUME Assign(h, entries[h], <<>>, n_features[h], FALSE), UNCHANGED live,
               Returns(c, "ERROR", Untouched)
        PROVE  Beyond'
    BY <1>2, <1>4, AssigningReturn
  <1>5. ASSUME step[c] < Len(entries[h]), entries[h][step[c] + 1] \in FitImplements,
               states' = [states EXCEPT ![h] = Append(@, state)],
               current' = [current EXCEPT ![c] = Append(@, state)],
               step' = [step EXCEPT ![c] = @ + 1],
               UNCHANGED <<live, entries, n_features, fitted, call, out, status>>
        PROVE  Beyond'
    <2>1. states'[h] = Append(states[h], state) /\ current'[c] = Append(current[c], state)
          /\ step'[c] = step[c] + 1
      BY <1>2, <1>5 DEF InductiveInv, TypeOK, ObjectTypes, CallTypes
    <2>2. \A g \in Handles \ {h} : SamePipe(g)
      BY <1>2, <1>5 DEF InductiveInv, TypeOK, ObjectTypes, SamePipe
    <2>3. \A d \in Callers \ {c} : Bystander(d)
      BY <1>5 DEF InductiveInv, TypeOK, CallTypes, Bystander
    <2>4. \A d \in Callers \ {c} : CallInv(d)'
      <3> TAKE d \in Callers \ {c}
      <3>1. call[d] # Idle => Pipe(d) \in Handles \ {h} /\ Pipe(d) \in live'
        BY <1>2, <1>5, CallParts DEF InductiveInv
      <3> QED
        BY <2>2, <2>3, <3>1, BystanderKeeps
    <2>5. FittedSoFar(states'[h], entries[h], x, step[c] + 1)
      <3>1. states[h] \in Seq(OperatorState) /\ step[c] \in Nat /\ Len(current[c]) = step[c]
        BY <1>2, <1>3 DEF InductiveInv, TypeOK, ObjectTypes, CallTypes, FittedSoFar
      <3> DEFINE last == FittedState(entries[h][step[c] + 1], x, step[c])
      <3>2. states'[h] = Append(states[h], last)
        BY <2>1, <3>1
      <3>3. last = FittedState(entries[h][step[c] + 1], x, (step[c] + 1) - 1)
        BY <3>1
      <3> HIDE DEF last
      <3>4. Len(states'[h]) = step[c] + 1 /\ states'[h][step[c] + 1] = last
            /\ \A i \in 1 .. step[c] : states'[h][i] = states[h][i]
        BY <1>3, <3>1, <3>2 DEF FittedSoFar
      <3> QED
        BY <1>3, <1>5, <3>1, <3>3, <3>4 DEF FittedSoFar
    <2>6. CallInv(c)'
      <3>1. In(c, "fit")' /\ ~In(c, "check")' /\ ~In(c, "transform")' /\ Pipe(c)' = h /\ Arg(c)' = x
        BY <1>1, <1>5 DEF In, Pipe, Arg
      <3>2. step'[c] <= Len(entries[h])
        BY <1>2, <1>5, <2>1 DEF InductiveInv, TypeOK, ObjectTypes, CallTypes
      <3> HIDE DEF state
      <3> QED
        BY <1>2, <1>3, <1>5, <2>1, <2>5, <3>1, <3>2 DEF CallInv, Fitting
    <2>7. TrainedInOneGo'
      <3> SUFFICES ASSUME NEW g \in Handles PROVE Trained(g)'
        BY DEF TrainedInOneGo
      <3>1. CASE g = h
        BY <1>3, <1>5, <3>1 DEF Trained
      <3>2. CASE g # h
        BY <2>2, <3>2, TrainedKept DEF TrainedInOneGo, InductiveInv
      <3> QED
        BY <3>1, <3>2
    <2>8. Exclusive' /\ ErrorWritesNothing'
      BY <1>5 DEF InductiveInv, Exclusive, ErrorWritesNothing, Fitting, In, Pipe
    <2> QED
      BY <2>4, <2>6, <2>7, <2>8 DEF Beyond
  <1>6. CASE FitOperator(c)
    BY <1>4, <1>5, <1>6 DEF FitOperator
  <1>7. CASE EndFit(c)
    <2>1. FittedSoFar(states[h], entries[h], x, Len(entries[h]))
      BY <1>3, <1>7 DEF EndFit
    <2>2. /\ Assign(h, entries[h], states[h], Cols(x), TRUE) /\ live' = live
          /\ Returns(c, "OK", Untouched)
      BY <1>7 DEF EndFit
    <2>3. \E z \in Matrix : Cols(x) = Cols(z)
                            /\ FittedSoFar(states[h], entries[h], z, Len(entries[h]))
      BY <1>2, <2>1
    <2> QED
      BY <1>2, <2>2, <2>3, AssigningReturn
  <1> QED
    BY <1>6, <1>7

LEMMA CheckStep ==
    ASSUME InductiveInv, NEW c \in Callers, NEW views \in BOOLEAN, NEW y \in BOOLEAN,
           CheckFit(c, views, y)
    PROVE  Beyond'
  <1> DEFINE h == Pipe(c)
             x == Arg(c)
  <1>1. In(c, "check") /\ ~In(c, "fit") /\ ~In(c, "transform") /\ Fitting(c) /\ call[c] # Idle
    BY DEF CheckFit, Fitting, In
  <1>2. /\ h \in Handles /\ h \in live /\ x \in Matrix
        /\ \A d \in Callers \ {c} : call[d] # Idle => Pipe(d) # h /\ Pipe(d) \in live
    BY <1>1, AloneInFit
  <1>3. step[c] = 0 /\ current[c] = <<>> /\ states[h] = <<>> /\ ~fitted[h]
    BY <1>1 DEF InductiveInv, CallInv
  <1>4. TrainedInOneGo' /\ live' = live /\ \A g \in Handles : SamePipe(g)
    BY Unchangeds DEF CheckFit
  <1>5. CASE Returns(c, "ERROR", Untouched)
    BY <1>5, PlainReturn DEF CheckFit
  <1>6. CASE Enters(c, "fit", h, x)
    <2>1. /\ \A d \in Callers \ {c} : Bystander(d)
          /\ Exclusive' /\ ErrorWritesNothing'
          /\ call'[c] = <<"fit", h, x>> /\ call'[c] # Idle
          /\ step'[c] = step[c] /\ current'[c] = current[c] /\ out'[c] = Untouched
      BY <1>2, <1>6, AfterEnter
    <2>2. \A d \in Callers \ {c} : CallInv(d)'
      BY <1>2, <1>4, <2>1, CallParts, BystanderKeeps DEF InductiveInv
    <2>3. /\ In(c, "fit")' /\ ~In(c, "check")' /\ ~In(c, "transform")' /\ Fitting(c)'
          /\ Pipe(c)' = h /\ Arg(c)' = x
      BY <2>1 DEF In, Pipe, Arg, Fitting
    <2>4. entries[h] \in Seq(AllKinds) /\ states'[h] = <<>> /\ ~fitted'[h] /\ entries'[h] = entries[h]
      BY <1>2, <1>3, <1>4 DEF InductiveInv, TypeOK, ObjectTypes, SamePipe
    <2>5. FittedSoFar(<<>>, entries[h], x, 0)
      BY DEF FittedSoFar
    <2>6. CallInv(c)'
      BY <1>2, <1>3, <1>4, <2>1, <2>3, <2>4, <2>5 DEF CallInv
    <2> QED
      BY <1>4, <2>1, <2>2, <2>6 DEF Beyond
  <1> QED
    BY <1>5, <1>6 DEF CheckFit

LEMMA TransformStep ==
    ASSUME InductiveInv, NEW c \in Callers, TransformOperator(c) \/ EndTransform(c)
    PROVE  Beyond'
  <1> DEFINE h == Pipe(c)
  <1>1. In(c, "transform") /\ ~In(c, "check") /\ ~In(c, "fit") /\ call[c] # Idle /\ ~Fitting(c)
    BY DEF TransformOperator, EndTransform, In, Fitting
  <1>2. UNCHANGED objVars
    BY DEF TransformOperator, EndTransform
  <1>3. TrainedInOneGo' /\ live' = live /\ \A g \in Handles : SamePipe(g)
    BY <1>2, Unchangeds
  <1>4. /\ h \in Handles /\ h \in live /\ fitted[h] /\ Cols(Arg(c)) = n_features[h]
        /\ out[c] = Untouched /\ Len(current[c]) = step[c]
        /\ \A i \in 1 .. step[c] : current[c][i] = states[h][i]
    BY <1>1, CallParts DEF InductiveInv, CallInv
  <1>5. ASSUME step[c] < Len(states[h]),
               current' = [current EXCEPT ![c] = Append(@, states[h][step[c] + 1])],
               step' = [step EXCEPT ![c] = @ + 1], UNCHANGED <<call, out, status>>
        PROVE  Beyond'
    <2>1. /\ \A d \in Callers \ {c} : Bystander(d)
          /\ step'[c] = step[c] + 1 /\ current'[c] = Append(current[c], states[h][step[c] + 1])
      BY <1>5 DEF InductiveInv, TypeOK, CallTypes, Bystander
    <2>2. \A d \in Callers \ {c} : CallInv(d)'
      BY <1>3, <2>1, CallParts, BystanderKeeps DEF InductiveInv, CallInv
    <2>3. /\ In(c, "transform")' /\ ~In(c, "check")' /\ ~In(c, "fit")' /\ ~Fitting(c)'
          /\ Pipe(c)' = h /\ Arg(c)' = Arg(c) /\ (call[c] # Idle)'
      BY <1>1, <1>5 DEF In, Pipe, Arg, Fitting
    <2>4. /\ step'[c] <= Len(states[h]) /\ Len(current'[c]) = step'[c]
          /\ \A i \in 1 .. step'[c] : current'[c][i] = states[h][i]
      <3>1. /\ step[c] \in Nat /\ current[c] \in Seq(OperatorState)
            /\ states[h] \in Seq(OperatorState)
        BY <1>4 DEF InductiveInv, TypeOK, ObjectTypes, CallTypes
      <3> QED
        BY <1>4, <1>5, <2>1, <3>1
    <2>5. CallInv(c)'
      BY <1>3, <1>4, <1>5, <2>3, <2>4 DEF CallInv, SamePipe
    <2>6. Exclusive' /\ ErrorWritesNothing'
      BY <1>5 DEF InductiveInv, Exclusive, ErrorWritesNothing, Fitting, In, Pipe
    <2> QED
      BY <1>3, <2>2, <2>5, <2>6 DEF Beyond
  <1>6. CASE TransformOperator(c)
    BY <1>2, <1>5, <1>6, PlainReturn DEF TransformOperator
  <1>7. CASE EndTransform(c)
    BY <1>2, <1>7, PlainReturn DEF EndTransform
  <1> QED
    BY <1>6, <1>7

LEMMA InductiveStep == InductiveInv /\ [Next]_plVars => InductiveInv'
  <1> SUFFICES ASSUME InductiveInv, [Next]_plVars PROVE Beyond'
    BY TypeStep DEF InductiveInv, Beyond
  <1>1. CASE UNCHANGED plVars
    BY <1>1 DEF InductiveInv, Beyond, plVars, objVars, callVars, TrainedInOneGo, Trained, FittedSoFar,
                Exclusive, ErrorWritesNothing, CallInv, Fitting, In, Pipe, Arg
  <1>2. ASSUME NEW c \in Callers, Refused(c) \/ Throws(c) PROVE Beyond'
    BY <1>2, PlainReturn DEF Refused, Throws
  <1>3. ASSUME NEW c \in Callers, Loops(c) PROVE Beyond'
    BY <1>3, CheckStep, FitStep, TransformStep DEF Loops
  <1> QED
    BY <1>1, <1>2, <1>3, ManageStep, BeginStep DEF Next

(* A transform, in whatever interleaving of callers, goes through one whole *)
(* fit: the invariant the other theorems rest on.                          *)
THEOREM Inductive == Spec => []InductiveInv
  <1>1. Init => InductiveInv
    <2> SUFFICES ASSUME Init PROVE Beyond
      BY TypeInit DEF InductiveInv, Beyond
    <2>1. TrainedInOneGo /\ Exclusive /\ ErrorWritesNothing
      BY DEF Init, TrainedInOneGo, Trained, Exclusive, ErrorWritesNothing, Fitting, In
    <2>2. \A c \in Callers : CallInv(c)
      BY DEF Init, CallInv, Fitting, In
    <2> QED
      BY <2>1, <2>2 DEF Beyond
  <1> QED
    BY <1>1, InductiveStep, PTL DEF Spec

(* Every variable keeps to its type, and no pipeline has more states than  *)
(* operators.                                                              *)
THEOREM TypeCorrect == Spec => []TypeOK
  <1>1. InductiveInv => TypeOK
    BY DEF InductiveInv
  <1> QED
    BY <1>1, Inductive, PTL

(* A failing transform leaves the caller's output alone. *)
THEOREM AllOrNothing == Spec => []ErrorWritesNothing
  <1>1. InductiveInv => ErrorWritesNothing
    BY DEF InductiveInv
  <1> QED
    BY <1>1, Inductive, PTL

LEMMA FittedApplies ==
    ASSUME NEW kind \in FitImplements, NEW x \in Matrix, NEW n \in Nat
    PROVE  Applicable(FittedState(kind, x, n), Cols(x))
  <1> DEFINE s == FittedScale(kind, Cols(x))
  <1>1. FittedState(kind, x, n).kind = kind /\ FittedState(kind, x, n).scale = s
    BY DEF FittedState
  <1>2. kind \in TransformImplements
    BY DEF FitImplements, TransformImplements, AllKinds
  <1>3. CASE kind \in {"EMSC", "DETREND_POLY"}
    BY <1>1, <1>2, <1>3 DEF Applicable, FittedScale
  <1>4. CASE kind = "WAVELET_DENOISE"
    BY <1>1, <1>2, <1>4 DEF Applicable, FittedScale
  <1>5. CASE kind \in {"ASLS_BASELINE", "NORRIS_WILLIAMS"}
    BY <1>1, <1>2, <1>5 DEF Applicable, FittedScale
  <1>6. CASE kind \in {"SAVGOL_SMOOTH", "SAVGOL_DERIVATIVE"}
    BY <1>1, <1>2, <1>6 DEF Applicable, FittedScale
  <1>7. CASE kind \in {"CENTER", "AUTOSCALE", "PARETO_SCALE", "OSC", "EPO"}
    BY <1>1, <1>2, <1>7 DEF Applicable, FittedScale
  <1>8. CASE kind \in {"IDENTITY", "SNV", "MSC"}
    BY <1>1, <1>2, <1>8 DEF Applicable, FittedScale
  <1> QED
    BY <1>3, <1>4, <1>5, <1>6, <1>7, <1>8 DEF FitImplements, AllKinds

(* fit and transform agree on every kind and on the size of its state. *)
THEOREM SwitchesAgree == Spec => []FittedStatesApply
  <1>1. ASSUME InductiveInv, NEW h \in Handles, fitted[h], NEW i \in DOMAIN states[h]
        PROVE  Applicable(states[h][i], n_features[h])
    <2>1. PICK x \in Matrix : /\ n_features[h] = Cols(x)
                              /\ FittedSoFar(states[h], entries[h], x, Len(entries[h]))
      BY <1>1 DEF InductiveInv, TrainedInOneGo, Trained
    <2>2. states[h] \in Seq(OperatorState) /\ i \in 1 .. Len(states[h])
      BY <1>1 DEF InductiveInv, TypeOK, ObjectTypes
    <2>3. entries[h][i] \in FitImplements /\ states[h][i] = FittedState(entries[h][i], x, i - 1)
      BY <2>1, <2>2 DEF FittedSoFar
    <2> QED
      BY <2>1, <2>2, <2>3, FittedApplies
  <1>2. InductiveInv => FittedStatesApply
    BY <1>1 DEF FittedStatesApply
  <1> QED
    BY <1>2, Inductive, PTL

(* Only its own caller leaves a call. *)
LEMMA OwnSteps ==
    ASSUME TypeOK, Next, NEW c \in Callers, call[c] # Idle, call'[c] # call[c]
    PROVE  Loops(c) \/ Throws(c)
  <1>1. PICK d \in Callers : \/ Refused(d) \/ Loops(d) \/ Throws(d)
                             \/ \E h \in Handles : \/ ManageHandle(d, h)
                                                   \/ \E x \in Matrix : BeginCall(d, h, x)
    BY DEF Next
  <1>2. d = c
    BY <1>1 DEF Refused, Loops, Throws, ManageHandle, BeginCall, Create, Destroy, Clone, AddOperator,
                BeginFit, BeginTransform, CheckFit, FitOperator, EndFit, TransformOperator,
                EndTransform, Returns, Enters, TypeOK, CallTypes
  <1> QED
    BY <1>1, <1>2 DEF Refused, ManageHandle, BeginCall, Create, Destroy, Clone, AddOperator,
                      BeginFit, BeginTransform

(* A refit that failed leaves no old fit behind. *)
THEOREM FailedFit == Spec => FailedFitForgets
  <1>1. ASSUME InductiveInv, [Next]_plVars, NEW c \in Callers,
               Fitting(c), call'[c] = Idle, status'[c] # "OK"
        PROVE  ~fitted'[Pipe(c)]
    <2>1. call[c] # Idle /\ Pipe(c) \in Handles /\ ~fitted[Pipe(c)] /\ ~In(c, "transform")
      BY <1>1, AloneInFit DEF Fitting, In, InductiveInv, CallInv
    <2>2. Next /\ call'[c] # call[c]
      BY <1>1, <2>1 DEF plVars, callVars
    <2>3. Loops(c) \/ Throws(c)
      BY <1>1, <2>1, <2>2, OwnSteps DEF InductiveInv
    <2>4. CASE UNCHANGED objVars
      BY <2>1, <2>4 DEF objVars
    <2>5. CASE FitOperator(c)
      BY <1>1, <2>1, <2>5 DEF FitOperator, Assign, InductiveInv, TypeOK, ObjectTypes
    <2>6. CASE EndFit(c)
      BY <1>1, <2>6 DEF EndFit, Returns, InductiveInv, TypeOK, CallTypes
    <2> QED
      BY <2>1, <2>3, <2>4, <2>5, <2>6
         DEF Loops, Throws, CheckFit, TransformOperator, EndTransform
  <1>2. InductiveInv /\ [Next]_plVars =>
           [\A c \in Callers : Fitting(c) /\ call'[c] = Idle /\ status'[c] # "OK"
                                 => ~fitted'[Pipe(c)]]_plVars
    BY <1>1
  <1> QED
    BY <1>2, Inductive, PTL DEF FailedFitForgets, Spec

-----------------------------------------------------------------------------
(* The abstract model of a pipeline, and what changing it amounts to. *)
Seen(h) == IF fitted[h] THEN Trains(n_features[h], states[h]) ELSE Untrained

View == [h \in Handles |-> Seen(h)]

LEMMA SetUntrained ==
    ASSUME TypeOK, NEW h \in Handles, NEW e, NEW s, NEW n, Assign(h, e, s, n, FALSE)
    PROVE  /\ entries' = [entries EXCEPT ![h] = e]
           /\ View' = [View EXCEPT ![h] = Untrained]
  <1>1. \A g \in Handles : Seen(g)' = IF g = h THEN Untrained ELSE Seen(g)
    BY DEF Assign, Seen, TypeOK, ObjectTypes
  <1> QED
    BY <1>1 DEF Assign, View

LEMMA ForgetRefines ==
    ASSUME TypeOK, NEW c \in Callers, NEW h \in Handles, NEW n, NEW s,
           Assign(h, entries[h], s, n, FALSE), out' = [out EXCEPT ![c] = Untouched]
    PROVE  Promise!Next
  <1>1. Promise!Forget(c, h)
    BY SetUntrained DEF Promise!Forget, Promise!Set, Promise!Answer, View, Seen
  <1> QED
    BY <1>1 DEF Promise!Next

LEMMA RefuseRefines ==
    ASSUME UNCHANGED objVars, NEW c \in Callers, out' = [out EXCEPT ![c] = Untouched]
    PROVE  Promise!Next
  <1>1. Promise!Refuse(c)
    BY DEF objVars, Promise!Refuse, Promise!Answer
  <1> QED
    BY <1>1 DEF Promise!Next

(* The states of a fit are the chain the promise asks for. *)
LEMMA FitIsChain ==
    ASSUME NEW kinds \in Seq(AllKinds), NEW s \in Seq(OperatorState), NEW x,
           FittedSoFar(s, kinds, x, Len(kinds))
    PROVE  s = Promise!Chain(kinds, x)
  BY DEF FittedSoFar, Promise!Chain

LEMMA ManageRefines ==
    ASSUME InductiveInv, NEW c \in Callers, NEW h \in Handles, ManageHandle(c, h)
    PROVE  Promise!Next
  <1>0. TypeOK
    BY DEF InductiveInv
  <1>1. CASE Create(c, h) \/ Destroy(c, h)
    <2>1. Assign(h, <<>>, <<>>, 0, FALSE) /\ out' = [out EXCEPT ![c] = Untouched]
      BY <1>1 DEF Create, Destroy, Returns
    <2>2. Promise!Clear(c, h)
      BY <1>0, <2>1, SetUntrained DEF Promise!Clear, Promise!Set, Promise!Answer, View, Seen
    <2> QED
      BY <2>2 DEF Promise!Next
  <1>2. ASSUME NEW src \in Handles, Clone(c, src, h) PROVE Promise!Next
    <2>1. /\ Assign(h, entries[src], states[src], n_features[src], fitted[src])
          /\ out' = [out EXCEPT ![c] = Untouched] /\ fitted[src] \in BOOLEAN
      BY <1>0, <1>2 DEF Clone, Returns, TypeOK, ObjectTypes
    <2>2. entries' = [entries EXCEPT ![h] = entries[src]] /\ View' = [View EXCEPT ![h] = View[src]]
      <3>1. \A g \in Handles : Seen(g)' = IF g = h THEN Seen(src) ELSE Seen(g)
        BY <1>0, <2>1 DEF Assign, Seen, TypeOK, ObjectTypes
      <3> QED
        BY <2>1, <3>1 DEF Assign, View
    <2>3. Promise!Copy(c, src, h)
      BY <2>1, <2>2 DEF Promise!Copy, Promise!Set, Promise!Answer, View, Seen
    <2> QED
      BY <2>3 DEF Promise!Next
  <1>3. ASSUME NEW kind \in Kinds, AddOperator(c, h, kind) PROVE Promise!Next
    <2>1. /\ Assign(h, Append(entries[h], kind), <<>>, n_features[h], FALSE)
          /\ out' = [out EXCEPT ![c] = Untouched]
      BY <1>3 DEF AddOperator, Returns
    <2>2. Promise!Extend(c, h, kind)
      BY <1>0, <2>1, SetUntrained DEF Promise!Extend, Promise!Set, Promise!Answer, View, Seen
    <2> QED
      BY <2>2 DEF Promise!Next
  <1> QED
    BY <1>1, <1>2, <1>3 DEF ManageHandle

LEMMA FitRefines ==
    ASSUME InductiveInv, NEW c \in Callers, FitOperator(c) \/ EndFit(c)
    PROVE  Promise!Next \/ UNCHANGED Promise!fpVars
  <1> DEFINE h == Pipe(c)
             x == Arg(c)
  <1>0. TypeOK /\ In(c, "fit") /\ Fitting(c)
    BY DEF InductiveInv, FitOperator, EndFit, Fitting
  <1>1. h \in Handles /\ x \in Matrix /\ ~fitted[h]
    BY <1>0, AloneInFit DEF InductiveInv, CallInv
  <1>2. FittedSoFar(states[h], entries[h], x, step[c])
    BY <1>0 DEF InductiveInv, CallInv, In
  <1>3. CASE FitOperator(c)
    <2>1. ASSUME NEW state, states' = [states EXCEPT ![h] = Append(@, state)],
                 UNCHANGED <<live, entries, n_features, fitted, call, out, status>>
          PROVE  UNCHANGED Promise!fpVars
      <3>1. \A g \in Handles : Seen(g)' = Seen(g)
        BY <1>0, <1>1, <2>1 DEF Seen, TypeOK, ObjectTypes
      <3> QED
        BY <2>1, <3>1 DEF Promise!fpVars, Seen
    <2>2. ASSUME Assign(h, entries[h], <<>>, n_features[h], FALSE), Returns(c, "ERROR", Untouched)
          PROVE  Promise!Next
      BY <1>0, <1>1, <2>2, ForgetRefines DEF Returns
    <2> QED
      BY <1>3, <2>1, <2>2 DEF FitOperator
  <1>4. CASE EndFit(c)
    <2>1. /\ Assign(h, entries[h], states[h], Cols(x), TRUE)
          /\ out' = [out EXCEPT ![c] = Untouched] /\ step[c] = Len(entries[h])
      BY <1>4 DEF EndFit, Returns
    <2>2. states[h] = Promise!Chain(entries[h], x)
      BY <1>0, <1>1, <1>2, <2>1, FitIsChain DEF TypeOK, ObjectTypes
    <2>3. Trains(Cols(x), states[h]) = Promise!Model(entries[h], x)
      BY <2>2 DEF Trains, Promise!Model
    <2>4. entries' = [entries EXCEPT ![h] = entries[h]]
          /\ View' = [View EXCEPT ![h] = Promise!Model(entries[h], x)]
      <3>1. \A g \in Handles : Seen(g)' = IF g = h THEN Trains(Cols(x), states[h]) ELSE Seen(g)
        BY <1>0, <1>1, <2>1 DEF Assign, Seen, TypeOK, ObjectTypes
      <3> QED
        BY <1>1, <2>1, <2>3, <3>1 DEF Assign, View
    <2>5. Promise!Train(c, h, x)
      BY <2>1, <2>4 DEF Promise!Train, Promise!Set, Promise!Answer, View, Seen
    <2> QED
      BY <1>1, <2>5 DEF Promise!Next
  <1> QED
    BY <1>3, <1>4

LEMMA TransformRefines ==
    ASSUME InductiveInv, NEW c \in Callers, TransformOperator(c) \/ EndTransform(c)
    PROVE  Promise!Next \/ UNCHANGED Promise!fpVars
  <1> DEFINE h == Pipe(c)
             x == Arg(c)
  <1>0. /\ TypeOK /\ In(c, "transform") /\ call[c] # Idle /\ UNCHANGED objVars
    BY DEF InductiveInv, TransformOperator, EndTransform, In
  <1>1. /\ h \in Handles /\ x \in Matrix /\ fitted[h] /\ Cols(x) = n_features[h]
        /\ Len(current[c]) = step[c] /\ \A i \in 1 .. step[c] : current[c][i] = states[h][i]
    BY <1>0, CallParts DEF InductiveInv, CallInv
  <1>2. CASE UNCHANGED out
    BY <1>0, <1>2 DEF objVars, Promise!fpVars
  <1>3. CASE Returns(c, "ERROR", Untouched)
    BY <1>0, <1>3, RefuseRefines DEF Returns
  <1>4. CASE EndTransform(c)
    <2>1. step[c] = Len(states[h]) /\ out' = [out EXCEPT ![c] = [data |-> x, through |-> current[c]]]
      BY <1>4 DEF EndTransform, Returns
    <2>2. current[c] = states[h]
      <3>1. current[c] \in Seq(OperatorState) /\ states[h] \in Seq(OperatorState)
        BY <1>0, <1>1 DEF TypeOK, ObjectTypes, CallTypes
      <3> QED
        BY <1>1, <2>1, <3>1
    <2>3. /\ Seen(h) = Trains(n_features[h], states[h]) /\ Seen(h) # Untrained
          /\ Seen(h).width = n_features[h] /\ Seen(h).chain = states[h]
      BY <1>1, MatrixCols DEF Seen, Trains, Untrained
    <2>4. Promise!Apply(c, h, x)
      BY <1>0, <1>1, <2>1, <2>2, <2>3 DEF Promise!Apply, Promise!Answer, Seen, objVars
    <2> QED
      BY <1>1, <2>4 DEF Promise!Next
  <1> QED
    BY <1>2, <1>3, <1>4 DEF TransformOperator

(* Data come out of a pipeline only through the whole chain of its present *)
(* operators, trained in one go on one matrix.                             *)
THEOREM Implementation == Spec => ImplementsFittedPipeline
  <1>1. Init => Promise!Init
    BY DEF Init, Promise!Init
  <1>2. InductiveInv /\ [Next]_plVars => [Promise!Next]_(Promise!fpVars)
    <2> SUFFICES ASSUME InductiveInv, [Next]_plVars
                 PROVE  Promise!Next \/ UNCHANGED Promise!fpVars
      OBVIOUS
    <2>1. CASE UNCHANGED plVars
      BY <2>1 DEF plVars, objVars, callVars, Promise!fpVars
    <2>2. ASSUME NEW c \in Callers, Refused(c) \/ Throws(c) PROVE Promise!Next
      BY <2>2, RefuseRefines DEF Refused, Throws, Returns
    <2>3. ASSUME NEW c \in Callers, NEW h \in Handles, NEW x \in Matrix, BeginCall(c, h, x)
          PROVE  Promise!Next
      <3>1. CASE BeginFit(c, h, x)
        BY <3>1, ForgetRefines DEF BeginFit, Enters, InductiveInv
      <3>2. ASSUME NEW views \in BOOLEAN, BeginTransform(c, h, x, views) PROVE Promise!Next
        BY <3>2, RefuseRefines DEF BeginTransform, Enters, Returns
      <3> QED
        BY <2>3, <3>1, <3>2 DEF BeginCall
    <2>4. ASSUME NEW c \in Callers, Loops(c) PROVE Promise!Next \/ UNCHANGED Promise!fpVars
      <3>1. ASSUME NEW views \in BOOLEAN, NEW y \in BOOLEAN, CheckFit(c, views, y)
            PROVE  Promise!Next
        BY <3>1, RefuseRefines DEF CheckFit, Enters, Returns
      <3> QED
        BY <2>4, <3>1, FitRefines, TransformRefines DEF Loops
    <2> QED
      BY <2>1, <2>2, <2>3, <2>4, ManageRefines DEF Next
  <1> QED
    BY <1>1, <1>2, Inductive, PTL DEF Spec, ImplementsFittedPipeline, Promise!Spec
=============================================================================
