---------------------------- MODULE ForkHandlers ----------------------------
(* The handlers of fork(): before a fork the samples are blocked and the data  *)
(* categories disabled, after it the parent restores both and the child gives  *)
(* up tracing.  They are run by the wrapper of fork() and by the handlers of   *)
(* pthread_atfork() inside of it, and three flags shall keep them from doing   *)
(* their work twice.  The window thread and the finalization of TraceWindow    *)
(* switch the same categories.  The child is a process of its own and is left  *)
(* out: of its handler, postfork_child(), only its copy of the flags depends    *)
(* on anything here.                                                           *)
EXTENDS TraceWindow

CONSTANTS
    Forker,         \* threads that fork
    MaxForks        \* bound: forks

VARIABLES
    samples,        \* trait::runtime_enabled<sampler_t>
    prefork_lock, postfork_parent_lock,
    at_fork,        \* the step a thread is at, and in which of the two calls
    forks           \* forks so far

lockVars == <<prefork_lock, postfork_parent_lock>>
forkVars == <<samples, lockVars, at_fork, forks>>
vars == <<windowVars, forkVars>>

Wrapper == 1        \* the call in fork_gotcha::operator()
AtFork == 2         \* the call inside of fork()

Init ==
    /\ WindowInit
    /\ samples = TRUE
    /\ prefork_lock = FALSE /\ postfork_parent_lock = FALSE
    /\ at_fork = [t \in Forker |-> <<"run", Wrapper>>]
    /\ forks = 0

Go(t, from, to) ==
    \E call \in {Wrapper, AtFork} :
        at_fork[t] = <<from, call>> /\ at_fork' = [at_fork EXCEPT ![t] = <<to, call>>]

(* The end of prefork_setup() and of postfork_parent(), in either call.         *)
Prepared(t, from) ==
    \/ /\ at_fork[t] = <<from, Wrapper>>
       /\ at_fork' = [at_fork EXCEPT ![t] = <<"pre", AtFork>>]
    \/ /\ at_fork[t] = <<from, AtFork>>
       /\ at_fork' = [at_fork EXCEPT ![t] = <<"fork", AtFork>>]
Returned(t, from) ==
    \/ /\ at_fork[t] = <<from, AtFork>>
       /\ at_fork' = [at_fork EXCEPT ![t] = <<"post", Wrapper>>]
    \/ /\ at_fork[t] = <<from, Wrapper>>
       /\ at_fork' = [at_fork EXCEPT ![t] = <<"run", Wrapper>>]

-----------------------------------------------------------------------------
(* fork_gotcha::operator(), of a profiler that is active                       *)
Fork(t) ==
    /\ state # "Init" /\ forks < MaxForks /\ Go(t, "run", "pre")
    /\ forks' = forks + 1
    /\ UNCHANGED <<windowVars, samples, lockVars>>

(* The C library runs the handlers of one fork after the other.                 *)
ForksAlone(t) ==
    at_fork[t][2] = AtFork =>
        \A u \in Forker \ {t} : at_fork[u][2] = AtFork => at_fork[u][1] = "pre"

(* prefork_setup(), unless it has been called ...                              *)
CheckPrefork(t) ==
    /\ ForksAlone(t)
    /\ IF prefork_lock THEN Prepared(t, "pre") ELSE Go(t, "pre", "block")
    /\ UNCHANGED <<windowVars, samples, lockVars, forks>>

Block(t) ==
    /\ Go(t, "block", "disable") /\ samples' = FALSE
    /\ UNCHANGED <<windowVars, lockVars, forks>>

Disable(t) ==
    /\ Go(t, "disable", "lock") /\ enabled' = FALSE
    /\ UNCHANGED <<settings, state, main, at, spec, cycle, samples, lockVars, forks>>

(* ... which it notes when it is done.                                         *)
LockPrefork(t) ==
    /\ Go(t, "lock", "unlock") /\ prefork_lock' = TRUE
    /\ UNCHANGED <<windowVars, samples, postfork_parent_lock, forks>>

UnlockPostfork(t) ==
    /\ Prepared(t, "unlock")
    /\ postfork_parent_lock' = FALSE
    /\ UNCHANGED <<windowVars, samples, prefork_lock, forks>>

(* The memory of the process is copied.                                         *)
RealFork(t) ==
    /\ Go(t, "fork", "post")
    /\ UNCHANGED <<windowVars, samples, lockVars, forks>>

(* postfork_parent(), unless it has been called ...                            *)
CheckPostfork(t) ==
    /\ IF postfork_parent_lock THEN Returned(t, "post") ELSE Go(t, "post", "enable")
    /\ UNCHANGED <<windowVars, samples, lockVars, forks>>

Enable(t) ==
    /\ Go(t, "enable", "unblock") /\ enabled' = TRUE
    /\ UNCHANGED <<settings, state, main, at, spec, cycle, samples, lockVars, forks>>

Unblock(t) ==
    /\ Go(t, "unblock", "return") /\ samples' = TRUE
    /\ UNCHANGED <<windowVars, lockVars, forks>>

(* ... which it notes when it is done.                                         *)
LockPostfork(t) ==
    /\ Go(t, "return", "unset") /\ postfork_parent_lock' = TRUE
    /\ UNCHANGED <<windowVars, samples, prefork_lock, forks>>

UnlockPrefork(t) ==
    /\ Returned(t, "unset") /\ prefork_lock' = FALSE
    /\ UNCHANGED <<windowVars, samples, postfork_parent_lock, forks>>

(* omnitrace_finalize() blocks the samples, as far as it is concerned for good. *)
FinalizeBlocked ==
    /\ Finalize /\ samples' = FALSE
    /\ UNCHANGED <<lockVars, at_fork, forks>>

Forking(t) ==
    \/ Fork(t) \/ CheckPrefork(t) \/ Block(t) \/ Disable(t) \/ LockPrefork(t)
    \/ UnlockPostfork(t) \/ RealFork(t) \/ CheckPostfork(t) \/ Enable(t) \/ Unblock(t)
    \/ LockPostfork(t) \/ UnlockPrefork(t)

Next ==
    \/ \E t \in Forker : Forking(t)
    \/ FinalizeBlocked
    \/ (Window \/ Activate \/ EnableCategories \/ DisableCategories) /\ UNCHANGED forkVars

Spec == Init /\ [][Next]_vars

-----------------------------------------------------------------------------
(* The types; the steps of a thread that forks are those of the two handlers,  *)
(* in one of the two calls.                                                    *)
TypeOK ==
    /\ WindowTypeOK
    /\ {samples, prefork_lock, postfork_parent_lock} \subseteq BOOLEAN
    /\ at_fork \in [Forker -> {"run", "pre", "block", "disable", "lock", "unlock", "fork",
                               "post", "enable", "unblock", "return", "unset"}
                              \X {Wrapper, AtFork}]
    /\ forks \in 0 .. MaxForks

NoForkUnderWay == \A t \in Forker : at_fork[t] = <<"run", Wrapper>>

(* The handlers are run twice, "hence the locks" (fork_gotcha.cpp:145), so that *)
(* what prefork_setup() turns off is on again after the fork: a program without *)
(* trace windows is traced and sampled when no thread of it is forking.         *)
RestoredAfterForks ==
    NoForkUnderWay /\ state = "Active" /\ Specs = << >> => enabled /\ samples

(* The memory of the process is copied while it collects nothing.              *)
QuietWhileForking ==
    \A t \in Forker :
        at_fork[t] = <<"fork", AtFork>> /\ state = "Active" => ~enabled /\ ~samples
=============================================================================
