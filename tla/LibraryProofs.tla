---------------------------- MODULE LibraryProofs ----------------------------
(***************************************************************************)
(* Theorems about the libraries under the services.  Statement, for any    *)
(* number of parameters, any values and any sequence of calls on a binder: *)
(* an execution sees the values that were bound for it, and gives them     *)
(* back.  Base64, for every input: decoding is the inverse of encoding.    *)
(***************************************************************************)
EXTENDS Statement, Base64, TLAPS

Blank == [i \in Positions |-> <<"null">>]

Values == Bindable \cup {<<"null">>}

SqlValues == {SqlOf(v) : v \in Values}

StmtType ==
  /\ stage \in {"closed", "none", "ready", "executing", "unwinding", "gone"}
  /\ temporary \in BOOLEAN /\ busy \in BOOLEAN /\ started \in BOOLEAN
  /\ inx \in Nat /\ runs \in Nat
  /\ params \in [Positions -> SqlValues]
  /\ bound \in [Positions -> Values]

\* The parameters in SQLite are those the program has bound.
Agree(p, b) == \A i \in Positions : p[i] = SqlOf(b[i])

\* The next _next_index resets the statement and clears its parameters.
Resets == started /\ inx = 0

\* No binder yet.
Untouched ==
  stage \in {"closed", "none"} =>
    /\ ~started /\ inx = 0 /\ runs = 0 /\ ~busy /\ thrown = "none"
    /\ bound = Blank /\ Agree(params, bound)

\* Between calls the parameters in SQLite may be those of the execution that
\* is over, but then the next call clears them.
ReadyInv ==
  stage = "ready" =>
    /\ inx = 0 => bound = Blank
    /\ Resets \/ Agree(params, bound)
    /\ busy => Resets

\* The row an execution has read gives back what was bound.
GivesBack ==
  got # <<>> =>
    \A i \in Positions : got[i] = ReadBack(bound[i])

ExecutingInv ==
  stage = "executing" => started /\ inx = 0 /\ Agree(params, bound) /\ GivesBack

\* The binder of one expression.
TemporaryInv ==
  temporary =>
    /\ runs = IF started THEN 1 ELSE 0
    /\ stage \in {"ready", "executing"} => thrown = "none"
    /\ thrown = "range" => runs = 0
    /\ stage = "gone" /\ thrown = "none" => runs = 1

\* The statement of the property says nothing of a binder between its calls:
\* the invariant adds what _next_index will do there.
StmtInv ==
  /\ StmtType /\ Untouched /\ ReadyInv /\ ExecutingInv /\ TemporaryInv
  /\ stage = "unwinding" => thrown # "none"
  /\ thrown # "misuse"

-----------------------------------------------------------------------------
(* The operators *)

LEMMA ErrorClasses ==
  /\ ErrorClass(ResultCodes.range) = "range"
  /\ ErrorClass(ResultCodes.cantopen) = "cantopen"
  /\ \A code \in StepErrors : ErrorClass(code) \in {"busy", "constraint_unique"}
  <1>1. /\ ResultCodes.range = 25 /\ ResultCodes.cantopen = 14 /\ ResultCodes.busy = 5
        /\ ResultCodes.constraint_unique = 2067 /\ ResultCodes.constraint = 19
        /\ ResultCodes.misuse = 21
    BY DEF ResultCodes
  <1>2. 25 % 256 = 25 /\ 14 % 256 = 14 /\ 5 % 256 = 5
    OBVIOUS
  <1>3. ErrorClass(25) = "range"
    BY <1>1, <1>2 DEF ErrorClass
  <1>4. ErrorClass(14) = "cantopen"
    BY <1>1, <1>2 DEF ErrorClass
  <1>5. ErrorClass(5) = "busy"
    BY <1>1, <1>2 DEF ErrorClass
  <1>6. ErrorClass(2067) = "constraint_unique"
    BY <1>1 DEF ErrorClass
  <1> QED BY <1>1, <1>3, <1>4, <1>5, <1>6 DEF StepErrors

LEMMA NullsAgree ==
  ASSUME NEW p, \A i \in Positions : p[i] = SqlNull
  PROVE  Agree(p, Blank)
  <1>1. SqlOf(<<"null">>) = SqlNull
    <2>1. <<"null">>[1] = "null"
      OBVIOUS
    <2> QED BY <2>1 DEF SqlOf
  <1> QED BY <1>1 DEF Agree, Blank

\* What was bound comes back in a variable of its type.
LEMMA ColumnOfValue ==
  ASSUME NEW v, IsValue(v)
  PROVE  Column(SqlOf(v), IF v[1] # "null" THEN v[1] ELSE "optional") = ReadBack(v)
  <1>0. \A x, y : <<x, y>> # <<"NULL">> /\ <<x, y>>[2] = y
    OBVIOUS
  <1>1. CASE v = <<"null">>
    <2>1. v[1] = "null"
      BY <1>1
    <2>2. SqlOf(v) = SqlNull
      BY <2>1 DEF SqlOf
    <2> QED BY <2>1, <2>2 DEF Column, Default, ReadBack
  <1>2. CASE v = <<v[1], v[2]>> /\ v[1] = "int"
    BY <1>0, <1>2 DEF SqlOf, SqlInteger, Column, SqlNull, ReadBack
  <1>3. CASE v = <<v[1], v[2]>> /\ v[1] = "double"
    BY <1>0, <1>3 DEF SqlOf, SqlFloat, Column, SqlNull, ReadBack
  <1>4. CASE v = <<v[1], v[2]>> /\ v[1] = "string"
    BY <1>0, <1>4 DEF SqlOf, SqlText, Column, SqlNull, ReadBack
  <1>5. CASE v = <<v[1], v[2]>> /\ v[1] = "vector"
    BY <1>0, <1>5 DEF SqlOf, SqlBlob, Column, SqlNull, ReadBack
  <1>6. CASE v = <<v[1], v[2]>> /\ v[1] = "optional"
    <2>1. SqlOf(v) = SqlPointer(v[2])
      BY <1>6 DEF SqlOf
    <2>2. CASE v[2] = <<>>
      BY <1>6, <2>1, <2>2 DEF SqlPointer, Column, Default, ReadBack
    <2>3. CASE v[2] # <<>>
      BY <1>0, <1>6, <2>1, <2>3 DEF SqlPointer, SqlText, Column, SqlNull, ReadBack
    <2> QED BY <2>2, <2>3
  <1> QED BY <1>1, <1>2, <1>3, <1>4, <1>5, <1>6 DEF IsValue

LEMMA FetchGivesBack ==
  ASSUME StmtType, Agree(params, bound), Fetch(TypesOf(bound)), UNCHANGED bound
  PROVE  GivesBack'
  <1> SUFFICES ASSUME NEW i \in Positions
               PROVE  got'[i] = ReadBack(bound[i])
    BY DEF GivesBack
  <1>1. i \in 1..(NParams + 1) /\ i <= NParams
    BY StatementAssumption DEF Positions
  <1>2. bound[i] \in Values /\ params[i] = SqlOf(bound[i])
    BY DEF StmtType, Agree
  <1>3. IsValue(bound[i])
    BY <1>2, StatementAssumption DEF Values, IsValue
  <1>4. TypesOf(bound)[i] = IF bound[i][1] # "null" THEN bound[i][1] ELSE "optional"
    BY <1>1 DEF TypesOf
  <1>5. got'[i] = Column(params[i], TypesOf(bound)[i])
    BY <1>1 DEF Fetch
  <1> QED BY <1>2, <1>3, <1>4, <1>5, ColumnOfValue

-----------------------------------------------------------------------------
(* The inductive invariant *)

LEMMA StmtInvInit == StmtInit => StmtInv
  <1> SUFFICES ASSUME StmtInit PROVE StmtInv
    OBVIOUS
  <1>1. \A i \in Positions : params[i] = SqlNull
    BY DEF StmtInit
  <1>2. bound = Blank /\ Agree(params, bound)
    BY <1>1, NullsAgree DEF StmtInit, Blank
  <1>3. params \in [Positions -> SqlValues] /\ bound \in [Positions -> Values]
    <2>1. bound \in [Positions -> Values]
      BY DEF StmtInit, Values
    <2>2. \A i \in Positions : params[i] \in SqlValues
      BY <1>2, <2>1 DEF Agree, SqlValues
    <2> QED BY <2>1, <2>2 DEF StmtInit
  <1>4. StmtType
    BY <1>3 DEF StmtInit, StmtType
  <1>5. Untouched /\ ReadyInv /\ ExecutingInv
    BY <1>2 DEF StmtInit, Untouched, ReadyInv, ExecutingInv
  <1>6. TemporaryInv
    BY DEF StmtInit, TemporaryInv
  <1> QED BY <1>4, <1>5, <1>6 DEF StmtInit, StmtInv

\* What _next_index leaves: a statement that is reset, and parameters that are
\* those bound since.
LEMMA NextIndexAgrees ==
  ASSUME StmtInv, stage = "ready", NEW reset \in BOOLEAN, NextIndex(reset)
  PROVE  /\ ~busy'
         /\ Agree(Cleared(reset), bound)
         /\ Cleared(reset) \in [Positions -> SqlValues]
  <1>1. ReadyInv /\ StmtType
    BY DEF StmtInv
  <1>2. CASE reset
    <2>1. inx = 0 /\ bound = Blank
      BY <1>1, <1>2 DEF NextIndex, ReadyInv
    <2>2. \A i \in Positions : Cleared(reset)[i] = SqlNull
      BY <1>2 DEF Cleared
    <2>3. Agree(Cleared(reset), bound)
      BY <2>1, <2>2, NullsAgree
    <2>4. \A i \in Positions : Cleared(reset)[i] \in SqlValues
      BY <1>1, <2>3 DEF Agree, StmtType, SqlValues
    <2>5. Cleared(reset) \in [Positions -> SqlValues]
      BY <1>2, <2>4 DEF Cleared
    <2> QED BY <1>2, <2>3, <2>5 DEF NextIndex
  <1>3. CASE ~reset
    <2>1. ~Resets /\ Cleared(reset) = params
      BY <1>3 DEF NextIndex, Resets, Cleared
    <2> QED BY <1>1, <2>1 DEF NextIndex, ReadyInv, StmtType
  <1> QED BY <1>2, <1>3

\* Where an exception leaves the binder.
LEMMA ThrowStage ==
  ASSUME NEW class, Throw(class)
  PROVE  /\ thrown' = class
         /\ stage' \in {"gone", "unwinding"} \/ (stage' = "ready" /\ ~temporary)
  BY DEF Throw

LEMMA BindStep ==
  ASSUME StmtInv, NEW v \in Bindable, Bind(v)
  PROVE  StmtInv'
  <1>1. PICK reset \in BOOLEAN :
          /\ NextIndex(reset)
          /\ \/ /\ inx' > NParams \/ busy'
                /\ params' = Cleared(reset)
                /\ Throw(ErrorClass(IF busy' THEN ResultCodes.misuse ELSE ResultCodes.range))
                /\ UNCHANGED bound
             \/ /\ inx' <= NParams /\ ~busy'
                /\ params' = [Cleared(reset) EXCEPT ![inx'] = SqlOf(v)]
                /\ bound' = [bound EXCEPT ![inx'] = v]
                /\ UNCHANGED <<stage, call, thrown>>
    BY DEF Bind
  <1>2. /\ stage = "ready" /\ (temporary => ~started) /\ inx' = inx + 1
        /\ UNCHANGED <<temporary, started, got, runs>>
    BY DEF Bind
  <1>3. /\ ~busy' /\ busy' \in BOOLEAN
        /\ Agree(Cleared(reset), bound)
        /\ Cleared(reset) \in [Positions -> SqlValues]
    BY <1>1, <1>2, NextIndexAgrees DEF NextIndex
  <1>4. StmtType /\ TemporaryInv /\ thrown # "misuse"
    BY DEF StmtInv
  <1>5. inx' \in Nat /\ inx' # 0 /\ inx' >= 1
    BY <1>2, <1>4 DEF StmtType
  <1>6. CASE /\ params' = Cleared(reset)
             /\ Throw(ErrorClass(IF busy' THEN ResultCodes.misuse ELSE ResultCodes.range))
             /\ UNCHANGED bound
    <2>1. /\ thrown' = "range"
          /\ stage' \in {"gone", "unwinding"} \/ (stage' = "ready" /\ ~temporary)
      BY <1>3, <1>6, ThrowStage, ErrorClasses
    <2>2. StmtType'
      BY <1>2, <1>3, <1>4, <1>5, <1>6, <2>1 DEF StmtType
    <2>3. ReadyInv'
      BY <1>3, <1>5, <1>6 DEF ReadyInv, Agree
    <2>4. Untouched' /\ ExecutingInv'
      BY <2>1 DEF Untouched, ExecutingInv
    <2>5. TemporaryInv'
      <3>1. temporary => runs = 0
        BY <1>2, <1>4 DEF TemporaryInv
      <3> QED BY <1>2, <1>4, <2>1, <3>1 DEF TemporaryInv
    <2> QED BY <2>1, <2>2, <2>3, <2>4, <2>5 DEF StmtInv
  <1>7. CASE /\ inx' <= NParams
             /\ params' = [Cleared(reset) EXCEPT ![inx'] = SqlOf(v)]
             /\ bound' = [bound EXCEPT ![inx'] = v]
             /\ UNCHANGED <<stage, call, thrown>>
    <2>1. inx' \in Positions /\ v \in Values /\ SqlOf(v) \in SqlValues
      BY <1>5, <1>7, StatementAssumption DEF Positions, Values, SqlValues
    <2>2. StmtType'
      BY <1>2, <1>3, <1>4, <1>5, <1>7, <2>1 DEF StmtType
    <2>3. Agree(params', bound')
      BY <1>3, <1>4, <1>7, <2>1 DEF Agree, StmtType
    <2>4. ReadyInv'
      BY <1>3, <1>5, <2>3 DEF ReadyInv, Agree
    <2>5. Untouched' /\ ExecutingInv'
      BY <1>2, <1>7 DEF Untouched, ExecutingInv
    <2>6. TemporaryInv'
      BY <1>2, <1>4, <1>7 DEF TemporaryInv
    <2> QED BY <1>2, <1>4, <1>7, <2>2, <2>4, <2>5, <2>6 DEF StmtInv
  <1> QED BY <1>1, <1>6, <1>7

LEMMA UsedStep ==
  ASSUME StmtInv, NEW state \in BOOLEAN, Used(state)
  PROVE  StmtInv'
  <1>1. PICK reset \in BOOLEAN :
          /\ IF state THEN reset = FALSE /\ UNCHANGED busy ELSE NextIndex(reset)
          /\ params' = Cleared(reset)
    BY DEF Used
  <1>2. /\ stage = "ready" /\ ~temporary /\ started' = state
        /\ UNCHANGED <<stage, temporary, inx, call, bound, got, runs, thrown>>
    BY DEF Used
  <1>3. StmtType /\ ReadyInv /\ thrown # "misuse"
    BY DEF StmtInv
  <1>4. CASE state
    <2>1. UNCHANGED <<params, busy>> /\ started'
      BY <1>1, <1>2, <1>4 DEF Cleared
    <2>2. StmtType'
      BY <1>2, <1>3, <2>1 DEF StmtType
    <2>3. ReadyInv'
      BY <1>2, <1>3, <2>1 DEF ReadyInv, Resets, Agree
    <2> QED BY <1>2, <1>3, <2>2, <2>3 DEF StmtInv, Untouched, ExecutingInv, TemporaryInv
  <1>5. CASE ~state
    <2>1. /\ ~busy' /\ busy' \in BOOLEAN /\ ~started'
          /\ Agree(params', bound) /\ params' \in [Positions -> SqlValues]
      BY <1>1, <1>2, <1>5, NextIndexAgrees DEF NextIndex
    <2>2. StmtType'
      BY <1>2, <1>3, <2>1 DEF StmtType
    <2>3. ReadyInv'
      BY <1>2, <1>3, <2>1 DEF ReadyInv, Agree
    <2> QED BY <1>2, <1>3, <2>2, <2>3 DEF StmtInv, Untouched, ExecutingInv, TemporaryInv
  <1> QED BY <1>4, <1>5

LEMMA StartStep ==
  ASSUME StmtInv, stage = "ready", NEW function, StartExecute(function),
         temporary => ~started, UNCHANGED <<temporary, bound, thrown>>
  PROVE  StmtInv'
  <1>1. PICK reset \in BOOLEAN : NextIndex(reset) /\ params' = Cleared(reset)
    BY DEF StartExecute
  <1>2. inx' = 0 /\ started' = TRUE /\ stage' = "executing" /\ runs' = runs + 1 /\ got' = <<>>
    BY DEF StartExecute
  <1>3. /\ ~busy' /\ busy' \in BOOLEAN
        /\ Agree(params', bound) /\ params' \in [Positions -> SqlValues]
    BY <1>1, NextIndexAgrees DEF NextIndex
  <1>4. StmtType /\ TemporaryInv /\ thrown # "misuse"
    BY DEF StmtInv
  <1>5. StmtType'
    BY <1>2, <1>3, <1>4 DEF StmtType
  <1>6. ExecutingInv'
    BY <1>2, <1>3 DEF ExecutingInv, GivesBack, Agree
  <1>7. TemporaryInv'
    <2>1. temporary => runs = 0 /\ thrown = "none"
      BY <1>4 DEF TemporaryInv
    <2>2. temporary => runs' = 1
      BY <1>2, <2>1
    <2> QED BY <1>2, <2>1, <2>2 DEF TemporaryInv
  <1> QED BY <1>2, <1>4, <1>5, <1>6, <1>7 DEF StmtInv, Untouched, ReadyInv

\* The end of an execution, with an exception or without one.
LEMMA EndStep ==
  ASSUME StmtInv, stage = "executing", Forget,
         UNCHANGED <<temporary, params, inx, started, runs>>, busy' = TRUE,
         \/ Return
         \/ \E class \in {"more_rows", "callback", "no_rows", "busy", "constraint_unique"} :
              Throw(class)
  PROVE  StmtInv'
  <1>1. StmtType /\ ExecutingInv /\ TemporaryInv /\ thrown # "misuse"
    BY DEF StmtInv
  <1>2. bound' = Blank /\ started' /\ inx' = 0
    BY <1>1 DEF Forget, Blank, ExecutingInv
  <1>3. bound' \in [Positions -> Values]
    BY DEF Forget, Values
  <1>4. /\ stage' \in {"gone", "unwinding", "ready"}
        /\ \/ UNCHANGED thrown /\ stage' # "unwinding"
           \/ /\ thrown' \in {"more_rows", "callback", "no_rows", "busy", "constraint_unique"}
              /\ stage' = "ready" => ~temporary
    BY DEF Return, Throw
  <1>5. StmtType'
    BY <1>1, <1>3, <1>4 DEF StmtType
  <1>6. ReadyInv'
    BY <1>2 DEF ReadyInv, Resets
  <1>7. TemporaryInv'
    <2>1. temporary => runs' = 1 /\ thrown = "none"
      BY <1>1 DEF TemporaryInv, ExecutingInv
    <2> QED BY <1>2, <1>4, <2>1 DEF TemporaryInv
  <1> QED BY <1>1, <1>4, <1>5, <1>6, <1>7 DEF StmtInv, Untouched, ExecutingInv

LEMMA StepRowStep ==
  ASSUME StmtInv, StepRow
  PROVE  StmtInv'
  <1>1. /\ stage = "executing" /\ busy' = TRUE
        /\ UNCHANGED <<temporary, params, inx, started, runs>>
    BY DEF StepRow
  <1>2. CASE Forget /\ \E class \in {"more_rows", "callback"} : Throw(class)
    BY <1>1, <1>2, EndStep
  <1>3. CASE /\ Fetch(TypesOf(bound)) \/ UNCHANGED got
             /\ UNCHANGED <<stage, bound, thrown>>
    <2>1. StmtType /\ ExecutingInv /\ TemporaryInv /\ thrown # "misuse"
      BY DEF StmtInv
    <2>2. StmtType'
      BY <1>1, <1>3, <2>1 DEF StmtType
    <2>3. Agree(params, bound) /\ GivesBack
      BY <1>1, <2>1 DEF ExecutingInv
    <2>4. GivesBack'
      <3>1. CASE UNCHANGED got
        BY <1>3, <2>3, <3>1 DEF GivesBack
      <3> QED BY <1>3, <2>1, <2>3, <3>1, FetchGivesBack
    <2>5. ExecutingInv'
      BY <1>1, <1>3, <2>1, <2>4 DEF ExecutingInv, Agree
    <2>6. TemporaryInv'
      BY <1>1, <1>3, <2>1 DEF TemporaryInv
    <2> QED BY <1>1, <1>3, <2>1, <2>2, <2>5, <2>6 DEF StmtInv, Untouched, ReadyInv
  <1> QED BY <1>2, <1>3 DEF StepRow

LEMMA StmtInvStep == StmtInv /\ [StmtNext]_stmtVars => StmtInv'
  <1> SUFFICES ASSUME StmtInv, [StmtNext]_stmtVars PROVE StmtInv'
    OBVIOUS
  <1>0. StmtType /\ Untouched /\ ReadyInv /\ ExecutingInv /\ TemporaryInv /\ thrown # "misuse"
    BY DEF StmtInv
  <1>1. CASE Open
    <2>1. /\ stage = "closed"
          /\ \/ stage' = "none" /\ UNCHANGED thrown
             \/ stage' = "gone" /\ thrown' = "cantopen"
          /\ UNCHANGED <<temporary, params, busy, inx, started, bound, got, runs>>
      BY <1>1, ErrorClasses DEF Open
    <2>2. StmtType'
      BY <1>0, <2>1 DEF StmtType
    <2>3. Untouched'
      BY <1>0, <2>1 DEF Untouched, Agree
    <2>4. TemporaryInv'
      BY <1>0, <2>1 DEF TemporaryInv
    <2> QED BY <1>0, <2>1, <2>2, <2>3, <2>4 DEF StmtInv, ReadyInv, ExecutingInv
  <1>2. CASE Prepare
    <2>1. /\ stage = "none"
          /\ UNCHANGED <<temporary, params, busy, bound, got, runs>>
      BY <1>2 DEF Prepare
    <2>2. /\ ~started /\ inx = 0 /\ ~busy /\ bound = Blank /\ Agree(params, bound)
          /\ runs = 0 /\ thrown = "none"
      BY <1>0, <2>1 DEF Untouched
    <2>3. CASE NewBinder /\ UNCHANGED thrown
      <3>1. stage' = "ready" /\ inx' = 0 /\ started' = FALSE
        BY <2>3 DEF NewBinder
      <3>2. StmtType'
        BY <1>0, <2>1, <3>1 DEF StmtType
      <3>3. ReadyInv'
        BY <2>1, <2>2, <3>1 DEF ReadyInv, Agree
      <3>4. TemporaryInv'
        BY <2>1, <2>2, <2>3, <3>1 DEF TemporaryInv
      <3> QED BY <1>0, <2>3, <3>1, <3>2, <3>3, <3>4 DEF StmtInv, Untouched, ExecutingInv
    <2>4. CASE stage' = "gone" /\ thrown' \in PrepareErrors /\ UNCHANGED <<inx, started>>
      <3>1. StmtType'
        BY <1>0, <2>1, <2>4 DEF StmtType
      <3>2. TemporaryInv'
        BY <1>0, <2>1, <2>2, <2>4 DEF TemporaryInv, PrepareErrors
      <3> QED
        BY <2>4, <3>1, <3>2 DEF StmtInv, Untouched, ReadyInv, ExecutingInv, PrepareErrors
    <2> QED BY <1>2, <2>3, <2>4 DEF Prepare
  <1>3. ASSUME NEW function, Execute(function) PROVE StmtInv'
    BY <1>3, StartStep DEF Execute
  <1>4. CASE StepDone
    BY <1>4, EndStep DEF StepDone
  <1>5. CASE StepError
    <2>1. /\ stage = "executing" /\ busy' = TRUE
          /\ UNCHANGED <<temporary, params, inx, started, got, runs>>
      BY <1>5 DEF StepError
    <2>2. CASE Forget /\ \E code \in StepErrors : Throw(ErrorClass(code))
      BY <2>1, <2>2, EndStep, ErrorClasses
    <2>3. CASE UNCHANGED <<stage, thrown, bound>>
      BY <1>0, <2>1, <2>3
      DEF StmtInv, StmtType, Untouched, ReadyInv, ExecutingInv, TemporaryInv, Agree, GivesBack
    <2> QED BY <1>5, <2>2, <2>3 DEF StepError
  <1>6. CASE Destroy
    <2>1. CASE ~started /\ stage = "ready"
      BY <1>6, <2>1, StartStep DEF Destroy
    <2>2. CASE ~(~started /\ stage = "ready")
      <3>1. /\ stage \in {"ready", "unwinding"} /\ stage' = "gone"
            /\ UNCHANGED <<params, busy, inx, started, call, runs, got, temporary, bound, thrown>>
        BY <1>6, <2>2 DEF Destroy
      <3>2. StmtType'
        BY <1>0, <3>1 DEF StmtType
      <3>3. stage = "unwinding" => thrown # "none"
        BY DEF StmtInv
      <3>4. TemporaryInv'
        BY <1>0, <2>2, <3>1, <3>3 DEF TemporaryInv
      <3> QED BY <1>0, <3>1, <3>2, <3>4 DEF StmtInv, Untouched, ReadyInv, ExecutingInv
    <2> QED BY <2>1, <2>2
  <1>7. CASE UNCHANGED stmtVars
    BY <1>0, <1>7
    DEF stmtVars, StmtInv, StmtType, Untouched, ReadyInv, ExecutingInv, TemporaryInv, Agree,
        GivesBack, Resets
  <1> QED
    BY <1>1, <1>2, <1>3, <1>4, <1>5, <1>6, <1>7, BindStep, UsedStep, StepRowStep DEF StmtNext

\* Whatever calls are made on a database_binder, kept or not, an execution
\* sees the values bound for it and only those, its rows give them back, and
\* a statement written as one expression runs once.
THEOREM ExecutionsSeeTheirBinds == StmtSpec => []ExecutionSeesItsBinds
  <1>1. StmtInv => ExecutionSeesItsBinds
    <2> SUFFICES ASSUME StmtInv PROVE ExecutionSeesItsBinds
      OBVIOUS
    <2>1. stage = "executing" => (\A i \in Positions : params[i] = SqlOf(bound[i])) /\ GivesBack
      BY DEF StmtInv, ExecutingInv, Agree
    <2>2. temporary => /\ runs <= 1
                       /\ thrown = "range" => runs = 0
                       /\ stage = "gone" /\ thrown = "none" => runs = 1
      BY DEF StmtInv, TemporaryInv
    <2> QED BY <2>1, <2>2 DEF ExecutionSeesItsBinds, GivesBack, StmtInv
  <1> QED BY StmtInvInit, StmtInvStep, <1>1, PTL DEF StmtSpec

-----------------------------------------------------------------------------
(* Base64 *)

Byte == 0..255

Char == 0..64

\* A group of three bytes, one after the other: which characters give it back.
LEMMA FirstByte ==
  ASSUME NEW x \in Byte, NEW y \in Byte
  PROVE  /\ x \div 4 \in 0..63 /\ (x % 4) * 16 + (y \div 16) \in 0..63
         /\ ((x \div 4) * 4 + ((((x % 4) * 16 + (y \div 16)) \div 16) % 4)) % 256 = x
  BY SMTT(30) DEF Byte

LEMMA SecondByte ==
  ASSUME NEW x \in Byte, NEW y \in Byte, NEW z \in Byte
  PROVE  /\ (y % 16) * 4 + (z \div 64) \in 0..63
         /\ ((((x % 4) * 16 + (y \div 16)) % 16) * 16
             + ((((y % 16) * 4 + (z \div 64)) \div 4) % 16)) % 256 = y
  <1>1. (y % 16) * 4 + (z \div 64) \in 0..63
    BY SMTT(30) DEF Byte
  <1>2. ((x % 4) * 16 + (y \div 16)) % 16 = y \div 16
    BY SMTT(30) DEF Byte
  <1>3. (((y % 16) * 4 + (z \div 64)) \div 4) % 16 = y % 16
    BY SMTT(30) DEF Byte
  <1>4. ((y \div 16) * 16 + (y % 16)) % 256 = y
    BY SMTT(30) DEF Byte
  <1> QED BY <1>1, <1>2, <1>3, <1>4

LEMMA ThirdByte ==
  ASSUME NEW y \in Byte, NEW z \in Byte
  PROVE  /\ z % 64 \in 0..63
         /\ ((((y % 16) * 4 + (z \div 64)) % 4) * 64 + (z % 64)) % 256 = z
  <1>1. ((y % 16) * 4 + (z \div 64)) % 4 = z \div 64
    BY SMTT(30) DEF Byte
  <1>2. ((z \div 64) * 64 + (z % 64)) % 256 = z /\ z % 64 \in 0..63
    BY SMTT(30) DEF Byte
  <1> QED BY <1>1, <1>2

\* The j-th byte of a group depends on the characters j and j + 1 only.
LEMMA TripleSextets ==
  ASSUME NEW a \in [1..3 -> Byte], NEW b \in [1..4 -> Int], NEW j \in 1..3,
         b[j] = Sextets(a)[j], b[j + 1] = Sextets(a)[j + 1]
  PROVE  Triple(b)[j] = a[j]
  <1>1. a[1] \in Byte /\ a[2] \in Byte /\ a[3] \in Byte
    OBVIOUS
  <1>2. /\ Sextets(a)[1] = a[1] \div 4
        /\ Sextets(a)[2] = (a[1] % 4) * 16 + (a[2] \div 16)
        /\ Sextets(a)[3] = (a[2] % 16) * 4 + (a[3] \div 64)
        /\ Sextets(a)[4] = a[3] % 64
    BY DEF Sextets
  <1>3. /\ Triple(b)[1] = (b[1] * 4 + ((b[2] \div 16) % 4)) % 256
        /\ Triple(b)[2] = ((b[2] % 16) * 16 + ((b[3] \div 4) % 16)) % 256
        /\ Triple(b)[3] = ((b[3] % 4) * 64 + b[4]) % 256
    BY DEF Triple
  <1>4. CASE j = 1
    <2>1. b[1] = a[1] \div 4 /\ b[2] = (a[1] % 4) * 16 + (a[2] \div 16)
      BY <1>2, <1>4
    <2>2. ((a[1] \div 4) * 4 + ((((a[1] % 4) * 16 + (a[2] \div 16)) \div 16) % 4)) % 256 = a[1]
      BY <1>1, FirstByte
    <2> QED BY <1>3, <1>4, <2>1, <2>2
  <1>5. CASE j = 2
    <2>1. b[2] = (a[1] % 4) * 16 + (a[2] \div 16) /\ b[3] = (a[2] % 16) * 4 + (a[3] \div 64)
      BY <1>2, <1>5
    <2>2. ((((a[1] % 4) * 16 + (a[2] \div 16)) % 16) * 16
           + ((((a[2] % 16) * 4 + (a[3] \div 64)) \div 4) % 16)) % 256 = a[2]
      BY <1>1, SecondByte
    <2> QED BY <1>3, <1>5, <2>1, <2>2
  <1>6. CASE j = 3
    <2>1. b[3] = (a[2] % 16) * 4 + (a[3] \div 64) /\ b[4] = a[3] % 64
      BY <1>2, <1>6
    <2>2. ((((a[2] % 16) * 4 + (a[3] \div 64)) % 4) * 64 + (a[3] % 64)) % 256 = a[3]
      BY <1>1, ThirdByte
    <2> QED BY <1>3, <1>6, <2>1, <2>2
  <1> QED BY <1>4, <1>5, <1>6

LEMMA SextetsType ==
  ASSUME NEW a \in [1..3 -> Byte], NEW q \in 1..4
  PROVE  Sextets(a)[q] \in 0..63
  <1>1. a[1] \in Byte /\ a[2] \in Byte /\ a[3] \in Byte
    OBVIOUS
  <1>2. /\ a[1] \div 4 \in 0..63 /\ (a[1] % 4) * 16 + (a[2] \div 16) \in 0..63
        /\ (a[2] % 16) * 4 + (a[3] \div 64) \in 0..63 /\ a[3] % 64 \in 0..63
    BY <1>1, FirstByte, SecondByte, ThirdByte
  <1> QED BY <1>2 DEF Sextets

\* How many characters stand for n bytes, and how many bytes they stand for.
LEMMA Lengths ==
  ASSUME NEW n \in Nat
  PROVE  /\ Written(n) \in Nat /\ 4 * ((n + 2) \div 3) \in Nat
         /\ Written(n) <= 4 * ((n + 2) \div 3) /\ (4 * ((n + 2) \div 3)) % 4 = 0
         /\ n % 3 # 0 => Written(n) < 4 * ((n + 2) \div 3)
         /\ 3 * (Written(n) \div 4) + (IF Written(n) % 4 = 0 THEN 0 ELSE (Written(n) % 4) - 1) = n
  <1> DEFINE f == n \div 3
             i == n % 3
  <1>1. f \in Nat /\ i \in 0..2 /\ n = 3 * f + i
    BY SMTT(30)
  <1>2. (n + 2) \div 3 = IF i = 0 THEN f ELSE f + 1
    BY <1>1, SMTT(30)
  <1>3. Written(n) = 4 * f + IF i = 0 THEN 0 ELSE i + 1
    BY DEF Written
  <1> HIDE DEF f, i
  <1>4. Written(n) \div 4 = f /\ Written(n) % 4 = IF i = 0 THEN 0 ELSE i + 1
    BY <1>1, <1>3, SMTT(30)
  <1>5. \A g \in Nat : (4 * g) % 4 = 0
    BY SMTT(30)
  <1>6. (4 * ((n + 2) \div 3)) % 4 = 0
    BY <1>1, <1>2, <1>5
  <1>7. /\ Written(n) \in Nat /\ 4 * ((n + 2) \div 3) \in Nat
        /\ Written(n) <= 4 * ((n + 2) \div 3)
        /\ i # 0 => Written(n) < 4 * ((n + 2) \div 3)
    BY <1>1, <1>2, <1>3
  <1>8. 3 * (Written(n) \div 4) + (IF Written(n) % 4 = 0 THEN 0 ELSE (Written(n) % 4) - 1) = n
    BY <1>1, <1>4
  <1> QED BY <1>6, <1>7, <1>8 DEF i

\* The p-th byte is the Within(p)-th behind GroupsBefore(p) groups.
GroupsBefore(p) == (p - 1) \div 3

Within(p) == ((p - 1) % 3) + 1

\* Where the two characters that carry it are.
LEMMA Places ==
  ASSUME NEW n \in Nat, NEW p \in 1..n, NEW q \in {Within(p), Within(p) + 1}
  PROVE  /\ GroupsBefore(p) \in Nat /\ Within(p) \in 1..3
         /\ GroupsBefore(p) * 3 + Within(p) = p /\ q \in 1..4
         /\ GroupsBefore(p) * 4 + q \in 1..Written(n)
         /\ ((GroupsBefore(p) * 4 + q) - 1) \div 4 = GroupsBefore(p)
         /\ (((GroupsBefore(p) * 4 + q) - 1) % 4) + 1 = q
  <1> DEFINE k == GroupsBefore(p)
             j == Within(p)
  <1>1. k \in Nat /\ j \in 1..3 /\ k * 3 + j = p
    BY SMTT(30) DEF GroupsBefore, Within
  <1> HIDE DEF k, j
  <1>0. q = j \/ q = j + 1
    BY DEF j
  <1>2. q \in 1..4 /\ k * 4 + q >= 1 /\ k * 4 + q \in Nat
    BY <1>0, <1>1
  <1> DEFINE f == n \div 3
             i == n % 3
  <1>3. f \in Nat /\ i \in 0..2 /\ n = 3 * f + i
    BY SMTT(30)
  <1>4. Written(n) = 4 * f + IF i = 0 THEN 0 ELSE i + 1
    BY DEF Written
  <1> HIDE DEF f, i
  <1>5. k < f \/ (k = f /\ j <= i)
    BY <1>1, <1>3
  <1>6. k * 4 + q <= Written(n)
    <2>1. CASE k < f
      BY <1>0, <1>1, <1>2, <1>3, <1>4, <2>1
    <2>2. CASE k = f /\ j <= i
      BY <1>0, <1>1, <1>2, <1>3, <1>4, <2>2
    <2> QED BY <1>5, <2>1, <2>2
  <1>7. Written(n) \in Nat
    BY Lengths
  <1>8. ((k * 4 + q) - 1) \div 4 = k /\ (((k * 4 + q) - 1) % 4) + 1 = q
    BY <1>1, <1>2, SMTT(30)
  <1> QED BY <1>1, <1>2, <1>6, <1>7, <1>8 DEF k, j

\* The text: Written characters of the alphabet, then padding.
LEMMA EncodeText ==
  ASSUME NEW in \in Seq(Byte), NEW n, n = Len(in)
  PROVE  /\ Encode(in) \in Seq(Char) /\ Len(Encode(in)) = 4 * ((n + 2) \div 3)
         /\ \A p \in 1..Written(n) :
              /\ Encode(in)[p] = Sextets(Chunk(in, (p - 1) \div 4, 3))[((p - 1) % 4) + 1]
              /\ Encode(in)[p] \in 0..63
         /\ \A p \in (Written(n) + 1)..(4 * ((n + 2) \div 3)) : Encode(in)[p] = Pad
  <1> DEFINE W == Written(n)
             L == 4 * ((n + 2) \div 3)
             ch(p) == Sextets(Chunk(in, (p - 1) \div 4, 3))[((p - 1) % 4) + 1]
  <1>1. n \in Nat
    OBVIOUS
  <1>2. W \in Nat /\ L \in Nat /\ W <= L
    BY <1>1, Lengths
  <1>3. Encode(in) = [p \in 1..L |-> IF p <= W THEN ch(p) ELSE Pad]
    BY DEF Encode
  <1>4. ASSUME NEW p \in Nat \ {0} PROVE ch(p) \in 0..63
    <2>1. (p - 1) \div 4 \in Nat /\ ((p - 1) % 4) + 1 \in 1..4
      BY SMTT(30)
    <2>2. \A k \in Nat : Chunk(in, k, 3) \in [1..3 -> Byte]
      <3> SUFFICES ASSUME NEW k \in Nat PROVE Chunk(in, k, 3) \in [1..3 -> Byte]
        OBVIOUS
      <3>1. \A i \in 1..3 : (IF k * 3 + i <= Len(in) THEN in[k * 3 + i] ELSE 0) \in Byte
        <4>1. 0 \in Byte
          BY DEF Byte
        <4>2. \A i \in 1..3 : k * 3 + i <= Len(in) => k * 3 + i \in 1..Len(in)
          OBVIOUS
        <4> QED BY <4>1, <4>2
      <3> QED BY <3>1 DEF Chunk
    <2> QED BY <2>1, <2>2, SextetsType
  <1> HIDE DEF W, L, ch
  <1>5. \A p \in 1..L : (IF p <= W THEN ch(p) ELSE Pad) \in Char
    <2>1. \A p \in 1..L : ch(p) \in 0..63
      BY <1>2, <1>4
    <2> QED BY <2>1 DEF Pad, Char
  <1>6. Encode(in) \in [1..L -> Char]
    BY <1>3, <1>5
  <1>7. Encode(in) \in Seq(Char) /\ Len(Encode(in)) = L
    BY <1>2, <1>6
  <1>8. \A p \in 1..W : Encode(in)[p] = ch(p) /\ Encode(in)[p] \in 0..63
    BY <1>2, <1>3, <1>4
  <1>9. \A p \in (W + 1)..L : Encode(in)[p] = Pad
    BY <1>2, <1>3
  <1> QED BY <1>7, <1>8, <1>9 DEF W, L, ch

\* Decoding stops where the alphabet ends.
LEMMA AcceptedIs ==
  ASSUME NEW S, NEW t \in Seq(S), NEW w \in 0..Len(t), \A p \in 1..w : IsBase64(t[p]),
         w < Len(t) => ~IsBase64(t[w + 1])
  PROVE  Accepted(t) = w
  <1> DEFINE P(n) == /\ \A p \in 1..n : IsBase64(t[p])
                     /\ n < Len(t) => ~IsBase64(t[n + 1])
  <1>1. P(w)
    OBVIOUS
  <1>2. ASSUME NEW n \in 0..Len(t), P(n) PROVE n = w
    <2>1. ~(n < w)
      <3>1. ASSUME n < w PROVE FALSE
        <4>1. n + 1 \in 1..w /\ n < Len(t)
          BY <3>1
        <4> QED BY <1>2, <4>1
      <3> QED BY <3>1
    <2>2. ~(w < n)
      <3>1. ASSUME w < n PROVE FALSE
        <4>1. w + 1 \in 1..n /\ w < Len(t)
          BY <3>1
        <4> QED BY <1>2, <4>1
      <3> QED BY <3>1
    <2> QED BY <2>1, <2>2
  <1>3. Accepted(t) = CHOOSE n \in 0..Len(t) : P(n)
    BY DEF Accepted
  <1> HIDE DEF P
  <1> QED BY <1>1, <1>2, <1>3

\* Whatever begins with the characters written for the input, and goes on with
\* a padding character if at all, decodes to the input.
LEMMA DecodePrefix ==
  ASSUME NEW in \in Seq(Byte), NEW t \in Seq(Char), NEW w, w = Written(Len(in)),
         w <= Len(t), \A p \in 1..w : t[p] = Encode(in)[p],
         w < Len(t) => t[w + 1] = Pad
  PROVE  Decode(t) = in
  <1> DEFINE n == Len(in)
             s == SubSeq(t, 1, w)
             out == [p \in 1..n |-> Triple(Chunk(s, (p - 1) \div 3, 4))[((p - 1) % 3) + 1]]
  <1>1. n \in Nat /\ w \in Nat
    BY Lengths
  <1>2. \A p \in 1..w :
          /\ Encode(in)[p] = Sextets(Chunk(in, (p - 1) \div 4, 3))[((p - 1) % 4) + 1]
          /\ Encode(in)[p] \in 0..63
    BY EncodeText
  <1>3. Accepted(t) = w
    <2>1. \A p \in 1..w : IsBase64(t[p])
      BY <1>2 DEF IsBase64
    <2>2. w < Len(t) => ~IsBase64(t[w + 1])
      <3>1. ~IsBase64(Pad)
        BY DEF IsBase64, Pad
      <3> QED BY <3>1
    <2>3. w \in 0..Len(t)
      BY <1>1
    <2> QED BY <2>1, <2>2, <2>3, AcceptedIs
  <1>4. 3 * (w \div 4) + (IF w % 4 = 0 THEN 0 ELSE (w % 4) - 1) = n
    BY <1>1, Lengths
  <1>5. Decode(t) = out
    BY <1>3, <1>4 DEF Decode
  <1>6. s \in Seq(Char) /\ Len(s) = w /\ \A p \in 1..w : s[p] = t[p]
    BY <1>1
  <1> HIDE DEF s, n
  <1>7. ASSUME NEW p \in 1..n
        PROVE  Triple(Chunk(s, (p - 1) \div 3, 4))[((p - 1) % 3) + 1] = in[p]
    <2> DEFINE k == GroupsBefore(p)
               j == Within(p)
               a == Chunk(in, k, 3)
               b == Chunk(s, k, 4)
    <2>1. /\ k \in Nat /\ j \in 1..3 /\ k * 3 + j = p
          /\ \A q \in {j, j + 1} :
               /\ q \in 1..4 /\ k * 4 + q \in 1..w
               /\ ((k * 4 + q) - 1) \div 4 = k /\ (((k * 4 + q) - 1) % 4) + 1 = q
      BY <1>1, Places DEF n
    <2>2. a \in [1..3 -> Byte] /\ a[j] = in[p]
      <3>1. \A i \in 1..3 : (IF k * 3 + i <= Len(in) THEN in[k * 3 + i] ELSE 0) \in Byte
        <4>1. 0 \in Byte
          BY DEF Byte
        <4>2. \A i \in 1..3 : k * 3 + i <= Len(in) => k * 3 + i \in 1..Len(in)
          <5>1. k \in Nat
            BY <2>1
          <5> HIDE DEF k
          <5> QED BY <5>1
        <4> QED BY <4>1, <4>2
      <3>2. k * 3 + j <= Len(in)
        BY <1>1, <2>1 DEF n
      <3> HIDE DEF k, j
      <3> QED BY <2>1, <3>1, <3>2 DEF Chunk
    <2>3. b \in [1..4 -> Int]
      <3>1. \A i \in 1..4 : (IF k * 4 + i <= Len(s) THEN s[k * 4 + i] ELSE 0) \in Int
        <4>1. \A i \in 1..4 : k * 4 + i <= Len(s) => k * 4 + i \in 1..Len(s)
          <5>1. k \in Nat
            BY <2>1
          <5> HIDE DEF k
          <5> QED BY <1>1, <1>6, <5>1
        <4>2. \A i \in 1..Len(s) : s[i] \in Char
          BY <1>6
        <4>3. Char \subseteq Int
          BY DEF Char
        <4>4. ASSUME NEW i \in 1..4, k * 4 + i <= Len(s) PROVE s[k * 4 + i] \in Int
          BY <4>1, <4>2, <4>3, <4>4
        <4>5. \A i \in 1..4 : k * 4 + i <= Len(s) => s[k * 4 + i] \in Int
          BY <4>4
        <4>6. 0 \in Int
          OBVIOUS
        <4> QED BY <4>5, <4>6, Zenon
      <3> QED BY <3>1 DEF Chunk
    <2>4. ASSUME NEW q \in {j, j + 1} PROVE b[q] = Sextets(a)[q]
      <3>1. /\ q \in 1..4 /\ k * 4 + q \in 1..w
            /\ ((k * 4 + q) - 1) \div 4 = k /\ (((k * 4 + q) - 1) % 4) + 1 = q
        BY <2>1
      <3>2. k * 4 + q <= Len(s)
        BY <1>1, <1>6, <3>1
      <3>3. b[q] = s[k * 4 + q]
        BY <3>1, <3>2 DEF Chunk
      <3>4. s[k * 4 + q] = Encode(in)[k * 4 + q]
        BY <1>6, <3>1
      <3>5. \A x : x = k * 4 + q => Encode(in)[x] = Sextets(Chunk(in, (x - 1) \div 4, 3))[((x - 1) % 4) + 1]
        BY <1>2, <3>1
      <3>6. Encode(in)[k * 4 + q] = Sextets(Chunk(in, k, 3))[q]
        BY <3>1, <3>5
      <3> QED BY <3>3, <3>4, <3>6
    <2> HIDE DEF k, j, a, b
    <2>5. b[j] = Sextets(a)[j] /\ b[j + 1] = Sextets(a)[j + 1]
      BY <2>4
    <2>6. Triple(b)[j] = a[j]
      BY <2>1, <2>2, <2>3, <2>5, TripleSextets
    <2> QED BY <2>2, <2>6 DEF k, j, b, GroupsBefore, Within
  <1>8. in = [p \in 1..n |-> in[p]]
    BY DEF n
  <1>9. out = in
    BY <1>7, <1>8
  <1> QED BY <1>5, <1>9

LEMMA ConcatHead ==
  ASSUME NEW S, NEW s \in Seq(S), NEW t \in Seq(S)
  PROVE  /\ s \o t \in Seq(S) /\ Len(s \o t) = Len(s) + Len(t) /\ Len(t) \in Nat
         /\ \A p \in 1..Len(s) : (s \o t)[p] = s[p]
  OBVIOUS

\* base64_decode is the inverse of base64_encode on every input, not only on
\* those of the run.
LEMMA EveryInput ==
  ASSUME NEW in \in Seq(Byte)
  PROVE  /\ Len(Encode(in)) % 4 = 0
         /\ Decode(Encode(in)) = in
         /\ \A l \in 0..Len(Encode(in)) :
              (\A p \in (l + 1)..Len(Encode(in)) : Encode(in)[p] = Pad)
              => Decode(SubSeq(Encode(in), 1, l)) = in
         /\ \A rest \in Seq(Char) : Len(in) % 3 # 0 => Decode(Encode(in) \o rest) = in
  <1> DEFINE text == Encode(in)
             n == Len(in)
             w == Written(n)
             L == 4 * ((n + 2) \div 3)
  <1>1. n \in Nat
    OBVIOUS
  <1>2. /\ text \in Seq(Char) /\ Len(text) = L
        /\ \A p \in 1..w : text[p] \in 0..63
        /\ \A p \in (w + 1)..L : text[p] = Pad
    BY EncodeText
  <1>3. w \in Nat /\ L \in Nat /\ w <= L /\ L % 4 = 0 /\ (n % 3 # 0 => w < L)
    BY <1>1, Lengths
  <1> HIDE DEF w, L, n, text
  <1>4. w < L => text[w + 1] = Pad
    BY <1>2, <1>3
  <1>5. ASSUME NEW t \in Seq(Char), w <= Len(t), \A p \in 1..w : t[p] = text[p],
               w < Len(t) => t[w + 1] = Pad
        PROVE  Decode(t) = in
    BY <1>5, DecodePrefix DEF w, n, text
  <1>6. Decode(text) = in
    BY <1>2, <1>3, <1>4, <1>5
  <1>7. ASSUME NEW l \in 0..L, \A p \in (l + 1)..L : text[p] = Pad
        PROVE  Decode(SubSeq(text, 1, l)) = in
    <2> DEFINE t == SubSeq(text, 1, l)
    <2>0. text \in Seq(Char) /\ l \in Nat /\ l <= Len(text)
      BY <1>2, <1>3
    <2>1. t \in Seq(Char) /\ Len(t) = l /\ \A p \in 1..l : t[p] = text[p]
      BY <2>0
    <2>2. w <= l
      <3>1. ASSUME ~(w <= l) PROVE FALSE
        <4>1. w \in (l + 1)..L /\ w \in 1..w
          BY <1>3, <3>1
        <4>2. text[w] = Pad /\ text[w] \in 0..63
          BY <1>2, <1>7, <4>1
        <4> QED BY <4>2 DEF Pad
      <3> QED BY <3>1
    <2> HIDE DEF t
    <2>3. \A p \in 1..w : t[p] = text[p]
      BY <1>3, <2>1, <2>2
    <2>4. w < l => t[w + 1] = Pad
      <3>1. ASSUME w < l PROVE t[w + 1] = Pad
        <4>1. w + 1 \in 1..l /\ w + 1 \in (w + 1)..L
          BY <1>3, <3>1
        <4> QED BY <1>2, <2>1, <4>1
      <3> QED BY <3>1
    <2>5. Decode(t) = in
      BY <1>5, <2>1, <2>2, <2>3, <2>4
    <2> QED BY <2>5 DEF t
  <1>8. ASSUME NEW rest \in Seq(Char), n % 3 # 0 PROVE Decode(text \o rest) = in
    <2> DEFINE t == text \o rest
    <2>0. text \in Seq(Char) /\ Len(text) = L
      BY <1>2
    <2>1. /\ t \in Seq(Char) /\ Len(t) = L + Len(rest) /\ Len(rest) \in Nat
          /\ \A p \in 1..L : t[p] = text[p]
      BY <2>0, ConcatHead
    <2>2. w < L
      BY <1>3, <1>8
    <2> HIDE DEF t
    <2>3. w <= Len(t) /\ \A p \in 1..w : t[p] = text[p]
      BY <1>3, <2>1
    <2>4. t[w + 1] = Pad
      <3>1. w + 1 \in 1..L
        BY <1>3, <2>2
      <3> QED BY <1>4, <2>1, <2>2, <3>1
    <2>5. Decode(t) = in
      BY <1>5, <2>1, <2>3, <2>4
    <2> QED BY <2>5 DEF t
  <1>9. Len(text) % 4 = 0
    BY <1>2, <1>3
  <1>10. \A l \in 0..Len(text) :
           (\A p \in (l + 1)..Len(text) : text[p] = Pad) => Decode(SubSeq(text, 1, l)) = in
    BY <1>2, <1>7
  <1>11. \A rest \in Seq(Char) : n % 3 # 0 => Decode(text \o rest) = in
    BY <1>8
  <1> QED BY <1>6, <1>9, <1>10, <1>11 DEF text, n

BytesOK == bytes \in Seq(Byte)

\* Decoding the text of any bytes, of any number, gives them back, with its
\* padding, with part of it or with something behind it.
THEOREM Base64Correct == Base64Spec => []Base64Inverse
  <1>1. Base64Init => BytesOK
    BY DEF Base64Init, BytesOK
  <1>2. BytesOK /\ [Base64Next]_bytes => BytesOK'
    <2> SUFFICES ASSUME BytesOK, [Base64Next]_bytes PROVE BytesOK'
      OBVIOUS
    <2>1. CASE Base64Next
      <3>1. PICK b \in Octets : bytes' = Append(bytes, b)
        BY <2>1 DEF Base64Next
      <3>2. b \in Byte
        BY <3>1, Base64Assumption DEF Byte
      <3> QED BY <3>1, <3>2 DEF BytesOK
    <2> QED BY <2>1 DEF BytesOK
  <1>3. BytesOK => Base64Inverse
    <2> SUFFICES ASSUME BytesOK PROVE Base64Inverse
      OBVIOUS
    <2>1. Encode(<<77>>) \in Seq(Char)
      <3>1. 77 \in Byte
        BY DEF Byte
      <3>2. <<77>> \in Seq(Byte)
        BY <3>1
      <3> QED BY <3>2, EncodeText
    <2> QED BY <2>1, EveryInput DEF Base64Inverse, BytesOK
  <1> QED BY <1>1, <1>2, <1>3, PTL DEF Base64Spec
=============================================================================
