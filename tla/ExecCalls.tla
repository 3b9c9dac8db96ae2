------------------------------ MODULE ExecCalls ------------------------------
(***************************************************************************)
(* Local programs run as actions: the checks before a call is spawned, and *)
(* its process, its time limit and its caller until it comes back.         *)
(***************************************************************************)
EXTENDS FiniteSets

CONSTANTS
    Calls,
    Commands,       \* argv templates: [program, interpreter, flags, vars]
    Arguments,      \* sets of argument names a call may have
    AllowLists,     \* sets of program names
    NoList

VARIABLES
    allow,      \* the allow list, or NoList
    allowAny,
    call,       \* [phase, cmd, outcome] of each call
    process,    \* each call's process: "none", "up", "killed", "gone"
    unread      \* the calls whose process has ended, and whose output is not all read

vars == <<allow, allowAny, call, process, unread>>

Idle == [phase |-> "idle"]
At(c, phase) == call[c].phase = phase

Init ==
    /\ allow \in AllowLists \cup {NoList} /\ allowAny \in BOOLEAN
    /\ call = [c \in Calls |-> Idle] /\ process = [c \in Calls |-> "none"] /\ unread = {}

Missing(cmd, args) == cmd.vars \ args

\* No list permits nothing unless everything is; a listed interpreter takes no flag,
\* and "env", itself an interpreter here, nothing at all.
Permitted(cmd) ==
    IF allow = NoList THEN allowAny
    ELSE cmd.program \in allow /\ ~(cmd.interpreter /\ (cmd.program = "env" \/ cmd.flags))

Back(c, outcome) == call' = [call EXCEPT ![c] = [phase |-> "back", outcome |-> outcome]]

Invoke(c, cmd, args) ==
    /\ At(c, "idle")
    /\ IF Missing(cmd, args) # {} \/ ~Permitted(cmd) THEN Back(c, "error")
       ELSE call' = [call EXCEPT ![c] = [phase |-> "spawning", cmd |-> cmd]]
    /\ UNCHANGED <<allow, allowAny, process, unread>>

Spawned(c) ==
    /\ At(c, "spawning")
    /\ \/ /\ call' = [call EXCEPT ![c].phase = "running"]
          /\ process' = [process EXCEPT ![c] = "up"] /\ unread' = unread \cup {c}
       \/ Back(c, "error") /\ UNCHANGED <<process, unread>>
    /\ UNCHANGED <<allow, allowAny>>

Dies(c) ==
    /\ process[c] \in {"up", "killed"}
    /\ process' = [process EXCEPT ![c] = "gone"]
    /\ UNCHANGED <<allow, allowAny, call, unread>>

\* The pipes reach their ends, which a child of the program may hold open.
Drained(c) ==
    /\ process[c] = "gone" /\ c \in unread /\ unread' = unread \ {c}
    /\ UNCHANGED <<allow, allowAny, call, process>>

\* communicate returns; an exit other than 0 is an error.
Communicated(c) ==
    /\ At(c, "running") /\ process[c] = "gone" /\ c \notin unread
    /\ \E outcome \in {"answer", "error"} : Back(c, outcome)
    /\ UNCHANGED <<allow, allowAny, process, unread>>

\* Mutant: the answer does not wait for the killed process.
TimeoutAnswersAtOnce(c) ==
    /\ At(c, "running")
    /\ process' = [process EXCEPT ![c] = IF @ = "up" THEN "killed" ELSE @]
    /\ Back(c, "timeout")
    /\ UNCHANGED <<allow, allowAny, unread>>

\* The limit cancels communicate and kills what runs.  A process that has ended and
\* whose pipes are closed, but whose output communicate did not hand over yet, cannot
\* be killed: ProcessLookupError leaves invoke instead of the answer.
Timeout(c) ==
    /\ At(c, "running")
    /\ process' = [process EXCEPT ![c] = IF @ = "up" THEN "killed" ELSE @]
    /\ IF process[c] = "gone" /\ c \notin unread THEN Back(c, "raised")
       ELSE call' = [call EXCEPT ![c].phase = "killing"]
    /\ UNCHANGED <<allow, allowAny, unread>>

Waited(c) ==
    /\ At(c, "killing") /\ process[c] = "gone"
    /\ Back(c, "timeout")
    /\ UNCHANGED <<allow, allowAny, process, unread>>

\* Cancelling the call cancels what it awaits, and nothing kills the process.
Cancelled(c) ==
    /\ call[c].phase \in {"spawning", "running", "killing"}
    /\ Back(c, "cancelled")
    /\ UNCHANGED <<allow, allowAny, process, unread>>

Next ==
    \E c \in Calls :
       \/ \E cmd \in Commands, args \in Arguments : Invoke(c, cmd, args)
       \/ Spawned(c) \/ Dies(c) \/ Drained(c) \/ Communicated(c) \/ Timeout(c) \/ Waited(c) \/ Cancelled(c)

Spec == Init /\ [][Next]_vars

\* A call that told its caller how it ended, a timeout included, has left no process
\* behind; a cancelled one may have.
AnsweredMeansGone ==
    \A c \in Calls : At(c, "back") /\ call[c].outcome # "cancelled" => process[c] \in {"none", "gone"}
=============================================================================
