----------------------------- MODULE Statement ------------------------------
(***************************************************************************)
(* The C++ wrapper of SQLite the services store their data with: a         *)
(* database, and the database_binder that prepares one statement, binds    *)
(* its parameters, executes it and hands its rows over.  The services use  *)
(* a binder as the temporary of one expression; the wrapper also offers    *)
(* one that is kept and executed again.  What SQLite itself does is        *)
(* modelled from the wrapper's calls: the statement gives its parameters   *)
(* back as a row.  A string is a sequence of characters, "NUL" one of       *)
(* them; an optional is a sequence of no or one string.                    *)
(***************************************************************************)
EXTENDS Naturals, Sequences

CONSTANTS
    Bindable,      \* values a program binds
    NParams,       \* parameters of the statement
    MaxCalls       \* bound on calls on one binder

\* A value with its C++ type, or nullptr.
IsValue(v) ==
    \/ v = <<"null">>
    \/ /\ v = <<v[1], v[2]>>
       /\ v[1] \in {"int", "double", "string", "vector", "optional"}

ASSUME StatementAssumption ==
    /\ NParams \in Nat \ {0} /\ MaxCalls \in Nat
    /\ \A v \in Bindable : IsValue(v)

VARIABLES
    stage,     \* closed, none, ready, executing, unwinding, gone
    temporary, \* the binder is the temporary of one expression
    params,    \* SQLite: the parameters, an SQL value each
    busy,      \* SQLite: stepped and not reset
    inx,       \* database_binder::_inx
    started,   \* database_binder::execution_started
    call,      \* the member function that is executing, with its rows so far
    bound,     \* history: what was bound since the last execution
    got,       \* the values of the last row, <<>> before one
    runs,      \* history: executions started
    thrown,    \* the class of the last exception
    calls      \* calls so far

stmtVars == <<stage, temporary, params, busy, inx, started, call, bound, got,
              runs, thrown, calls>>

Positions == 1..NParams

SqlNull == <<"NULL">>

\* An int or an int64 is bound as it is and read back as it is.
SqlInteger(n) == <<"INTEGER", n>>

\* So is a double; a float is widened first.
SqlFloat(x) == <<"FLOAT", x>>

\* The bytes of a vector.
SqlBlob(bytes) == <<"BLOB", bytes>>

\* How many characters SQLite takes of a string whose length it is not told.
BeforeNul(text) ==
    CHOOSE n \in 0..Len(text) : /\ n = Len(text) \/ text[n + 1] = "NUL"
                                /\ \A i \in 1..n : text[i] # "NUL"

\* A string of either width, and a literal made into one: bound with the length
\* -1, up to its first NUL.
SqlText(text) == <<"TEXT", SubSeq(text, 1, BeforeNul(text))>>

\* nullptr, and what an empty unique_ptr is bound as.
SqlPointer(p) == IF p = <<>> THEN SqlNull ELSE SqlText(p[1])

\* operator<< for each type of value; an optional is its value or null.
SqlOf(v) ==
    CASE v[1] = "null"     -> SqlNull
      [] v[1] = "int"      -> SqlInteger(v[2])
      [] v[1] = "double"   -> SqlFloat(v[2])
      [] v[1] = "string"   -> SqlText(v[2])
      [] v[1] = "vector"   -> SqlBlob(v[2])
      [] v[1] = "optional" -> SqlPointer(v[2])

\* What get_col_from_db makes of a null, and of a column the row does not have.
Default(type) ==
    CASE type \in {"int", "double"}    -> 0
      [] type \in {"string", "vector"} -> <<>>
      [] type = "optional"             -> <<>>

\* get_col_from_db; the integers that are not an int go through an int64.
Column(sql, type) ==
    <<type, CASE sql = SqlNull -> Default(type)
              [] sql # SqlNull -> IF type = "optional" THEN <<sql[2]>> ELSE sql[2]>>

\* The result codes that matter here, and the extended code of one of them.
ResultCodes == [ok |-> 0, busy |-> 5, cantopen |-> 14, constraint |-> 19,
                misuse |-> 21, range |-> 25, constraint_unique |-> 19 + 8 * 256]

\* throw_sqlite_error: the class of the extended code if there is one, else the
\* class of the code it extends.
ErrorClass(code) ==
    IF code = ResultCodes.constraint_unique THEN "constraint_unique"
    ELSE CASE code % 256 = ResultCodes.constraint -> "constraint"
           [] code % 256 = ResultCodes.busy       -> "busy"
           [] code % 256 = ResultCodes.cantopen   -> "cantopen"
           [] code % 256 = ResultCodes.misuse     -> "misuse"
           [] code % 256 = ResultCodes.range      -> "range"
           [] OTHER                               -> "sqlite_exception"

\* The codes with which a step can fail.
StepErrors == {ResultCodes.busy, ResultCodes.constraint_unique}

StmtInit ==
    /\ stage = "closed" /\ temporary \in BOOLEAN
    /\ params = [i \in Positions |-> SqlNull] /\ busy = FALSE
    /\ inx = 0 /\ started = FALSE /\ call = <<"none", 0>>
    /\ bound = [i \in Positions |-> <<"null">>] /\ got = <<>>
    /\ runs = 0 /\ thrown = "none" /\ calls = 0

\* An exception leaves the call: the temporary dies with it in flight, the
\* owner of a kept binder may handle it.
Throw(class) ==
    /\ thrown' = class
    /\ call' = <<"none", 0>>
    /\ \/ call[1] = "destructor" /\ stage' = "gone"
       \/ call[1] # "destructor" /\ stage' = "unwinding"
       \/ call[1] # "destructor" /\ ~temporary /\ stage' = "ready"

\* database::database: a connection that cannot be opened throws the extended
\* code; one that can reports extended codes from then on.
Open ==
    /\ stage = "closed"
    /\ \/ stage' = "none" /\ UNCHANGED thrown
       \/ stage' = "gone" /\ thrown' = ErrorClass(ResultCodes.cantopen)
    /\ UNCHANGED <<temporary, params, busy, inx, started, call, bound, got, runs, calls>>

\* _prepare refuses a text that is wrong or holds a second statement.
PrepareErrors == {"error", "more_statements"}

\* A new binder has bound nothing.
NewBinder == inx' = 0 /\ started' = FALSE /\ stage' = "ready"

\* database::operator<<: the text becomes a binder, or there is none.
Prepare ==
    /\ stage = "none"
    /\ \/ NewBinder /\ UNCHANGED thrown
       \/ stage' = "gone" /\ thrown' \in PrepareErrors /\ UNCHANGED <<inx, started>>
    /\ UNCHANGED <<temporary, params, busy, call, bound, got, runs, calls>>

\* _next_index: the first call after an execution resets the statement and
\* clears its parameters.
NextIndex(reset) ==
    /\ reset = (started /\ inx = 0)
    /\ busy' = (busy /\ ~reset)

\* Mutant: the statement is reset, its parameters stay.
ClearedNever(reset) == params

\* sqlite3_clear_bindings, when _next_index calls it.
Cleared(reset) == IF reset THEN [i \in Positions |-> SqlNull] ELSE params

\* operator<<(value): SQLite refuses a position the statement does not have,
\* and any position while the statement is not reset.
Bind(v) ==
    \E reset \in BOOLEAN :
        /\ stage = "ready" /\ calls < MaxCalls /\ calls' = calls + 1
        /\ temporary => ~started
        /\ NextIndex(reset)
        /\ inx' = inx + 1
        /\ \/ /\ inx' > NParams \/ busy'
              /\ params' = Cleared(reset)
              /\ Throw(ErrorClass(IF busy' THEN ResultCodes.misuse ELSE ResultCodes.range))
              /\ UNCHANGED bound
           \/ /\ inx' <= NParams /\ ~busy'
              /\ params' = [Cleared(reset) EXCEPT ![inx'] = SqlOf(v)]
              /\ bound' = [bound EXCEPT ![inx'] = v]
              /\ UNCHANGED <<stage, call, thrown>>
        /\ UNCHANGED <<temporary, started, got, runs>>

\* used(state): the owner of a kept binder calls it, false to have the
\* destructor execute the statement again.
Used(state) ==
    \E reset \in BOOLEAN :
        /\ stage = "ready" /\ ~temporary /\ calls < MaxCalls /\ calls' = calls + 1
        /\ IF state THEN reset = FALSE /\ UNCHANGED busy ELSE NextIndex(reset)
        /\ params' = Cleared(reset)
        /\ started' = state
        /\ UNCHANGED <<stage, temporary, inx, call, bound, got, runs, thrown>>

\* _start_execute, at the start of execute, _extract and _extract_single_value.
StartExecute(function) ==
    \E reset \in BOOLEAN :
        /\ NextIndex(reset)
        /\ params' = Cleared(reset)
        /\ inx' = 0 /\ started' = TRUE
        /\ call' = <<function, 0>> /\ stage' = "executing"
        /\ runs' = runs + 1
        /\ got' = <<>>

\* execute, operator++ or operator>> with a function, a value or a tuple.
Execute(function) ==
    /\ stage = "ready" /\ calls < MaxCalls /\ calls' = calls + 1
    /\ temporary => ~started /\ function # "execute"
    /\ StartExecute(function)
    /\ UNCHANGED <<temporary, bound, thrown>>

\* The end of a call that threw nothing.
Return ==
    /\ stage' = IF call[1] = "destructor" THEN "gone" ELSE "ready"
    /\ call' = <<"none", 0>>
    /\ UNCHANGED thrown

\* What is bound for the next execution once this one is over.
Forget == bound' = [i \in Positions |-> <<"null">>]

\* binder::run and tuple_iterate: one variable for each column of the row, and
\* one more than the row has.
Fetch(types) ==
    got' = [i \in 1..(NParams + 1) |->
        Column(IF i <= NParams THEN params[i] ELSE SqlNull, types[i])]

\* The type of variable that a program reads a column it wrote as.
TypesOf(values) ==
    [i \in 1..(NParams + 1) |->
        IF i <= NParams /\ values[i][1] # "null" THEN values[i][1] ELSE "optional"]

\* sqlite3_step gives a row: execute goes on, the two others call back; the
\* function given to operator>> may throw.  A second row is too many for a
\* single value.
StepRow ==
    /\ stage = "executing" /\ call[2] < 2
    /\ busy' = TRUE
    /\ \/ /\ call[1] = "single" /\ call[2] = 1
          /\ Throw("more_rows") /\ Forget /\ UNCHANGED got
       \/ /\ ~(call[1] = "single" /\ call[2] = 1)
          /\ call' = <<call[1], call[2] + 1>>
          /\ IF call[1] \in {"extract", "single"} THEN Fetch(TypesOf(bound)) ELSE UNCHANGED got
          /\ UNCHANGED <<stage, bound, thrown>>
       \/ /\ call[1] = "extract"
          /\ Fetch(TypesOf(bound))
          /\ Throw("callback") /\ Forget
    /\ UNCHANGED <<temporary, params, inx, started, runs, calls>>

\* sqlite3_step is done.
StepDone ==
    /\ stage = "executing"
    /\ busy' = TRUE
    /\ IF call = <<"single", 0>> THEN Throw("no_rows") ELSE Return
    /\ Forget
    /\ UNCHANGED <<temporary, params, inx, started, got, runs, calls>>

\* sqlite3_step fails.  The first step of a single value falls through to the
\* second one, which starts the statement over: its outcome decides.
StepError ==
    /\ stage = "executing"
    /\ busy' = TRUE
    /\ \/ /\ call = <<"single", 0>>
          /\ call' = <<"single", 1>>
          /\ UNCHANGED <<stage, thrown, bound>>
       \/ /\ call # <<"single", 0>>
          /\ \E code \in StepErrors : Throw(ErrorClass(code))
          /\ Forget
    /\ UNCHANGED <<temporary, params, inx, started, got, runs, calls>>

\* The destructor: a binder that was never executed is executed now, unless an
\* exception is in flight.
Destroy ==
    /\ stage \in {"ready", "unwinding"}
    /\ IF ~started /\ stage = "ready"
       THEN StartExecute("destructor")
       ELSE /\ stage' = "gone"
            /\ UNCHANGED <<params, busy, inx, started, call, runs, got>>
    /\ UNCHANGED <<temporary, bound, thrown, calls>>

StmtNext ==
    \/ Open \/ Prepare
    \/ \E v \in Bindable : Bind(v)
    \/ \E state \in BOOLEAN : Used(state)
    \/ \E function \in {"execute", "extract", "single"} : Execute(function)
    \/ StepRow \/ StepDone \/ StepError
    \/ Destroy

StmtSpec == StmtInit /\ [][StmtNext]_stmtVars

----------------------------------------------------------------------------
(* Properties *)

\* What a program reads in the place of a value it bound: a string ends at its
\* first NUL.
ReadBack(v) ==
    CASE v[1] = "null"                       -> <<"optional", <<>>>>
      [] v[1] = "string"                     -> <<"string", SqlText(v[2])[2]>>
      [] v[1] = "optional" /\ v[2] # <<>>    -> <<"optional", <<SqlText(v[2][1])[2]>>>>
      [] v[1] \in {"int", "double", "vector"} \/ v = <<"optional", <<>>>> -> v

\* An execution uses exactly the values bound for it: none is left over from
\* the execution before, whichever way the binder is used again, and none is
\* refused because the statement was not reset.  A row gives back what was
\* bound, a string up to its first NUL, or the default of the type.  A statement
\* written as one expression runs once, and not at all when binding it threw.
ExecutionSeesItsBinds ==
    /\ stage = "executing" => \A i \in Positions : params[i] = SqlOf(bound[i])
    /\ thrown # "misuse"
    /\ (got # <<>> /\ stage = "executing") =>
        \A i \in Positions : got[i] = ReadBack(bound[i])
    /\ temporary =>
        /\ runs <= 1
        /\ thrown = "range" => runs = 0
        /\ stage = "gone" /\ thrown = "none" => runs = 1
=============================================================================
