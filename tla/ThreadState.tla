---------------------------- MODULE ThreadState ----------------------------
(* The state of a thread, which decides whether what it does is the program's  *)
(* or omnitrace's own work, and the history it is restored from when a scope   *)
(* ends: the scopes in omnitrace, the lock around a line of the log, the       *)
(* wrappers of pthread_create and of a thread's routine, and the sampling      *)
(* handlers that run on top of all of them.                                    *)
EXTENDS Integers, SequencesExt

CONSTANTS
    Thread, Main,   \* threads, and the first one of the program
    NoThread,       \* the owner of a lock that is free
    OffsetCreates,  \* threads that omnitrace has started create threads
    MaxDepth,       \* bound: scopes that are open on a thread
    MaxLines        \* bound: lines of the log

ASSUME ThreadAssumption ==
    Main \in Thread /\ NoThread \notin Thread /\ OffsetCreates \in BOOLEAN
ASSUME BoundAssumption == MaxDepth \in Nat \ {0} /\ MaxLines \in Nat

VARIABLES
    value,          \* get_thread_state_value()
    history,        \* get_thread_state_history()
    frames,         \* scopes that are open, the innermost last
    at,             \* where a thread is
    offset,         \* threads that omnitrace has started
    protectLock, protectUnlock,     \* of debug.cpp
    owner,          \* of the mutex around lines of the log
    finalized,      \* get_state() >= State::Finalized
    lines,          \* lines of the log so far
    disturbed       \* history: threads that have lost what a scope restores

lockVars == <<protectLock, protectUnlock, owner, lines>>
vars == <<value, history, frames, at, offset, finalized, disturbed, lockVars>>

Kind == {"scope", "create", "log", "wrapper", "routine"}

Init ==
    /\ value = [t \in Thread |-> "Enabled"]
    /\ history = [t \in Thread |-> << >>]
    /\ frames = [t \in Thread |-> << >>]
    /\ at = [t \in Thread |-> IF t = Main THEN "run" ELSE "begin"]
    /\ offset = {} /\ protectLock = FALSE /\ protectUnlock = FALSE /\ owner = NoThread
    /\ finalized = FALSE /\ lines = 0 /\ disturbed = {}

Ended(t) == value[t] \in {"Completed", "Disabled"}
InFrame(t, kind) == frames[t] # << >> /\ Last(frames[t]) = kind
Move(t, to) == at' = [at EXCEPT ![t] = to]
SetState(t, v) == value' = [value EXCEPT ![t] = v]
SetHistory(t, entries) == history' = [history EXCEPT ![t] = entries]

-----------------------------------------------------------------------------
(* push_thread_state() and pop_thread_state()                                  *)

(* What follows when a scope has been entered, and when it has been left.      *)
Entered(kind) ==
    CASE kind = "create" -> "disable" [] kind = "log" -> "locking"
      [] kind = "wrapper" -> "init" [] OTHER -> "run"
Left(kind) ==
    CASE kind = "wrapper" -> "call" [] kind = "routine" -> "finish"
      [] kind = "log" -> "reset" [] OTHER -> "run"

(* Mutant: a push is not ignored in an ended state.                            *)
PushUnchecked(t, kind) ==
    /\ frames' = [frames EXCEPT ![t] = Append(@, kind)]
    /\ SetState(t, IF kind = "routine" THEN "Enabled" ELSE "Internal")
    /\ SetHistory(t, Append(history[t], value[t])) /\ Move(t, "insert")

(* The state is swapped, and the former one written behind the last entry ...  *)
Push(t, kind) ==
    /\ frames' = [frames EXCEPT ![t] = Append(@, kind)]
    /\ IF Ended(t)
       THEN Move(t, Entered(kind)) /\ UNCHANGED <<value, history>>
       ELSE /\ SetState(t, IF kind = "routine" THEN "Enabled" ELSE "Internal")
            /\ SetHistory(t, Append(history[t], value[t])) /\ Move(t, "insert")

(* ... which then counts.                                                      *)
Insert(t) ==
    /\ at[t] = "insert" /\ Move(t, Entered(Last(frames[t])))
    /\ UNCHANGED <<value, history, frames, offset, finalized, disturbed, lockVars>>

(* A sampling handler pushes and pops its own entry, and what it has written   *)
(* stays behind the last one that counts; nothing else of it remains.          *)
Handler(t) ==
    /\ at[t] = "insert"
    /\ SetHistory(t, Append(Front(history[t]), value[t]))
    /\ disturbed' = disturbed \cup {t}
    /\ UNCHANGED <<value, frames, at, offset, finalized, lockVars>>

Close(t) ==
    /\ frames' = [frames EXCEPT ![t] = Front(@)]
    /\ Move(t, Left(Last(frames[t])))

(* Mutant: the state is restored to Enabled, not to the one before the scope.   *)
PopEnabled(t) ==
    /\ Close(t)
    /\ IF Ended(t) \/ history[t] = << >>
       THEN UNCHANGED <<value, history>>
       ELSE SetState(t, "Enabled") /\ SetHistory(t, Front(history[t]))

(* Mutant: pops are ignored from Internal on, not from Completed on.           *)
PopUnlessInternal(t) ==
    /\ Close(t)
    /\ IF value[t] # "Enabled" \/ history[t] = << >>
       THEN UNCHANGED <<value, history>>
       ELSE SetState(t, Last(history[t])) /\ SetHistory(t, Front(history[t]))

(* The last entry is restored and removed.                                     *)
Pop(t) ==
    /\ Close(t)
    /\ IF Ended(t) \/ history[t] = << >>
       THEN UNCHANGED <<value, history>>
       ELSE SetState(t, Last(history[t])) /\ SetHistory(t, Front(history[t]))

(* OMNITRACE_SCOPED_THREAD_STATE, and the scope of pthread_create's wrapper,   *)
(* which is taken out by the finalization.                                     *)
Enter(t) ==
    /\ at[t] = "run" /\ Len(frames[t]) < MaxDepth
    /\ \/ Push(t, "scope")
       \/ (t \in offset => OffsetCreates) /\ ~finalized /\ Push(t, "create")
    /\ UNCHANGED <<offset, finalized, disturbed, lockVars>>

Leave(t) ==
    /\ at[t] = "run" /\ \E kind \in {"scope", "create", "wrapper"} : InFrame(t, kind)
    /\ Pop(t)
    /\ UNCHANGED <<offset, finalized, disturbed, lockVars>>

(* While it prepares the creation a thread is Disabled.                        *)
Disable(t) ==
    /\ at[t] = "disable" /\ SetState(t, "Disabled") /\ Move(t, "prepare")
    /\ UNCHANGED <<history, frames, offset, finalized, disturbed, lockVars>>

Prepared(t) ==
    /\ at[t] = "prepare" /\ SetState(t, "Internal") /\ Move(t, "run")
    /\ UNCHANGED <<history, frames, offset, finalized, disturbed, lockVars>>

-----------------------------------------------------------------------------
(* debug::lock                                                                 *)

(* A line is printed without the lock when another one is waiting for it.      *)
BeginLine(t) ==
    /\ at[t] = "run" /\ lines < MaxLines /\ ~protectLock
    /\ Move(t, "protect")
    /\ lines' = lines + 1
    /\ UNCHANGED <<value, history, frames, offset, finalized, disturbed, protectLock,
                   protectUnlock, owner>>

Protect(t) ==
    /\ at[t] = "protect" /\ protectLock' = TRUE /\ Move(t, "protected")
    /\ UNCHANGED <<value, history, frames, offset, finalized, disturbed, protectUnlock,
                   owner, lines>>

PushLine(t) ==
    /\ at[t] = "protected" /\ Push(t, "log")
    /\ UNCHANGED <<offset, finalized, disturbed, lockVars>>

LockLines(t) ==
    /\ at[t] = "locking" /\ owner = NoThread /\ owner' = t
    /\ Move(t, "locked")
    /\ UNCHANGED <<value, history, frames, offset, finalized, disturbed, protectLock,
                   protectUnlock, lines>>

Unprotect(t) ==
    /\ at[t] = "locked" /\ protectLock' = FALSE /\ Move(t, "print")
    /\ UNCHANGED <<value, history, frames, offset, finalized, disturbed, protectUnlock,
                   owner, lines>>

(* At the end of the line the state is restored, unless another thread is just *)
(* doing that: then the mutex is released and nothing else.                    *)
EndLine(t) ==
    /\ at[t] = "print"
    /\ IF ~protectUnlock
       THEN Move(t, "unlock") /\ UNCHANGED <<frames, owner, disturbed>>
       ELSE /\ owner' = NoThread /\ disturbed' = disturbed \cup {t}
            /\ frames' = [frames EXCEPT ![t] = Front(@)]
            /\ Move(t, "run")
    /\ UNCHANGED <<value, history, offset, finalized, protectLock, protectUnlock, lines>>

UnlockLines(t) ==
    /\ \/ /\ at[t] = "unlock" /\ protectUnlock' = TRUE /\ Move(t, "unlocking")
          /\ UNCHANGED <<value, history, frames, owner>>
       \/ /\ at[t] = "unlocking" /\ owner' = NoThread /\ Pop(t)
          /\ UNCHANGED protectUnlock
       \/ /\ at[t] = "reset" /\ protectUnlock' = FALSE /\ Move(t, "run")
          /\ UNCHANGED <<value, history, frames, owner>>
    /\ UNCHANGED <<offset, finalized, disturbed, protectLock, lines>>

-----------------------------------------------------------------------------
(* wrapper::operator(), from a thread's start to its end, and the finalization *)
Begin(t) ==
    /\ at[t] = "begin" /\ Push(t, "wrapper")
    /\ offset' \in {offset, offset \cup {t}}
    /\ UNCHANGED <<finalized, disturbed, lockVars>>

(* thread_info::init()                                                         *)
InitInfo(t) ==
    /\ at[t] = "init"
    /\ IF t \in offset THEN SetState(t, "Disabled") ELSE UNCHANGED value
    /\ Move(t, "run")
    /\ UNCHANGED <<history, frames, offset, finalized, disturbed, lockVars>>

Call(t) ==
    /\ at[t] = "call" /\ Push(t, "routine")
    /\ UNCHANGED <<offset, finalized, disturbed, lockVars>>

Return(t) ==
    /\ at[t] = "run" /\ InFrame(t, "routine")
    /\ IF finalized THEN Move(t, "exited") /\ UNCHANGED <<value, history, frames>>
       ELSE Pop(t)
    /\ UNCHANGED <<offset, finalized, disturbed, lockVars>>

Finish(t) ==
    /\ \/ at[t] = "finish" /\ SetState(t, "Internal") /\ Move(t, "dtor")
       \/ at[t] = "dtor" /\ SetState(t, "Completed") /\ Move(t, "exited")
    /\ UNCHANGED <<history, frames, offset, finalized, disturbed, lockVars>>

Finalize ==
    /\ at[Main] = "run" /\ SetState(Main, "Completed") /\ finalized' = TRUE
    /\ UNCHANGED <<history, frames, at, offset, disturbed, lockVars>>

Next ==
    \/ \E t \in Thread :
         \/ Insert(t) \/ Handler(t) \/ Enter(t) \/ Leave(t)
         \/ Disable(t) \/ Prepared(t)
         \/ BeginLine(t) \/ Protect(t) \/ PushLine(t) \/ LockLines(t) \/ Unprotect(t)
         \/ EndLine(t) \/ UnlockLines(t)
         \/ Begin(t) \/ InitInfo(t) \/ Call(t) \/ Return(t) \/ Finish(t)
    \/ Finalize

Spec == Init /\ [][Next]_vars

-----------------------------------------------------------------------------
(* The types; an entry of the history is never an ended state.                 *)
TypeOK ==
    /\ value \in [Thread -> {"Enabled", "Internal", "Completed", "Disabled"}]
    /\ history \in [Thread -> Seq({"Enabled", "Internal"})]
    /\ frames \in [Thread -> Seq(Kind)]
    /\ at \in [Thread -> {"begin", "init", "run", "insert", "disable", "prepare",
                          "protect", "protected", "locking", "locked", "print", "unlock",
                          "unlocking", "reset", "call", "finish", "dtor", "exited"}]
    /\ {protectLock, protectUnlock, finalized} \subseteq BOOLEAN
    /\ owner \in Thread \cup {NoThread} /\ lines \in 0 .. MaxLines
    /\ disturbed \subseteq Thread /\ offset \subseteq Thread \ {Main}

(* Whatever other threads and the handlers do, a thread that is in one of      *)
(* omnitrace's scopes is not Enabled: omnitrace's own work is not taken for    *)
(* the program's.                                                              *)
InternalWorkHidden ==
    \A t \in Thread :
        at[t] = "run" /\ frames[t] # << >> /\ Last(frames[t]) # "routine"
            => value[t] # "Enabled"

(* The state that the scopes of a thread stand for.                            *)
Expected(t) ==
    IF t \in offset THEN "Disabled"
    ELSE IF t = Main /\ finalized THEN "Completed"
    ELSE IF frames[t] = << >> \/ Last(frames[t]) = "routine" THEN "Enabled"
    ELSE "Internal"

(* Only two things keep a thread's state from being the one that its scopes    *)
(* stand for: that lines of two threads end at the same time, and that a       *)
(* handler comes between the writing of an entry and its counting.             *)
ScopesRestore ==
    \A t \in Thread \ disturbed : at[t] = "run" => value[t] = Expected(t)

(* "Internal -> Enabled" (pthread_create_gotcha.cpp:287): when its set up is    *)
(* done the state of a thread of the program is Enabled.                       *)
EnabledAfterSetup ==
    \A t \in Thread \ offset : at[t] = "call" => value[t] = "Enabled"
=============================================================================
