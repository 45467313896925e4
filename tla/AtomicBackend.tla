--------------------------- MODULE AtomicBackend ---------------------------
(***************************************************************************)
(* What Backend promises to those who log, without threads' stacks, frames *)
(* mutexes and addresses: a backend serves one message at a time.  It      *)
(* offers it to each of its appenders exactly once, in some order, and     *)
(* neither its appenders nor its priority change meanwhile.  Where it has  *)
(* passed a message on to another backend, it goes on when that is done.   *)
(***************************************************************************)
EXTENDS Naturals, Sequences

CONSTANTS Threads, Backends, Sinks, Forwards, Target, Wiring, Priorities,
          BackendDefault, AppenderDefault

Appenders == Sinks \cup Forwards

VARIABLES
    appenders,   \* appenders[b]: the appenders of b
    priority,    \* priority[b]: what b lets in
    threshold,   \* threshold[a]: what the appender a lets in
    constructed, \* the forwards constructed so far
    waiting,     \* waiting[b]: the messages given to b and not yet served
    current,     \* current[b]: the message that b serves, if any
    todo,        \* todo[b]: the appenders it has still to be offered to
    at,          \* at[b]: the appender that has it now, if any
    out,         \* out[s]: what the sink s has output, in order
    calls        \* number of messages logged

settings == <<appenders, priority, threshold, constructed>>
service == <<waiting, current, todo, at>>
vars == <<settings, out, calls, service>>

InProgress(t) ==
    \E b \in Backends : \E m \in waiting[b] \cup current[b] : m.thread = t

(* Whoever waits for c to be done with m has it back. *)
HandedBack(c, m) ==
    [b \in Backends |->
        IF m \in current[b] /\ \E f \in at[b] \cap Forwards : Target[f] = c
        THEN {} ELSE at[b]]

(* A thread logs.  Its previous message is done with: doLog is synchronous. *)
Call(t, b, p) ==
    /\ calls' = calls + 1
    /\ ~ InProgress(t)
    /\ waiting' = [waiting EXCEPT ![b] = @ \cup
                      {[id |-> calls + 1, thread |-> t, backend |-> b,
                        priority |-> p]}]
    /\ UNCHANGED <<settings, current, todo, at, out>>

(* m is not urgent enough for b. *)
Reject(b, m) ==
    /\ m \in waiting[b]
    /\ m.priority > priority[b]
    /\ waiting' = [waiting EXCEPT ![b] = @ \ {m}]
    /\ at' = HandedBack(b, m)
    /\ UNCHANGED <<settings, current, todo, out, calls>>

(* b begins with m when it is free. *)
Serve(b, m) ==
    /\ m \in waiting[b]
    /\ m.priority <= priority[b]
    /\ current[b] = {}
    /\ waiting' = [waiting EXCEPT ![b] = @ \ {m}]
    /\ current' = [current EXCEPT ![b] = {m}]
    /\ todo' = [todo EXCEPT ![b] = appenders[b]]
    /\ UNCHANGED <<settings, at, out, calls>>

(* The appender a has its turn with m. *)
Turn(b, m, a) ==
    /\ m \in current[b]
    /\ at[b] = {}
    /\ a \in todo[b]
    /\ todo' = [todo EXCEPT ![b] = @ \ {a}]
    /\ UNCHANGED <<settings, current, out, calls>>

Filter(b, m, a) ==
    /\ Turn(b, m, a)
    /\ m.priority > threshold[a]
    /\ UNCHANGED <<waiting, at>>

Admit(b, m, a) ==
    /\ Turn(b, m, a)
    /\ m.priority <= threshold[a]
    /\ at' = [at EXCEPT ![b] = {a}]
    /\ waiting' = IF a \in Forwards
                  THEN [waiting EXCEPT ![Target[a]] = @ \cup {m}] ELSE waiting

Output(b, m, s) ==
    /\ m \in current[b]
    /\ s \in at[b] \cap Sinks
    /\ out' = [out EXCEPT ![s] = Append(@, m)]
    /\ at' = [at EXCEPT ![b] = {}]
    /\ UNCHANGED <<settings, waiting, current, todo, calls>>

(* Every appender has had its turn. *)
Done(b, m) ==
    /\ m \in current[b]
    /\ todo[b] = {} /\ at[b] = {}
    /\ current' = [current EXCEPT ![b] = {}]
    /\ at' = HandedBack(b, m)
    /\ UNCHANGED <<settings, waiting, todo, out, calls>>

(* The settings of b change between two messages only. *)
Configure(b) ==
    /\ current[b] = {}
    /\ \/ \E p \in Priorities :
             /\ priority' = [priority EXCEPT ![b] = p]
             /\ UNCHANGED appenders
       \/ \E a \in Wiring[b] \cap (Sinks \cup constructed) :
             /\ appenders' = [appenders EXCEPT ![b] = @ \cup {a}]
             /\ UNCHANGED priority
       \/ \E a \in Appenders :
             /\ appenders' = [appenders EXCEPT ![b] = @ \ {a}]
             /\ UNCHANGED priority
    /\ UNCHANGED <<threshold, constructed, service, out, calls>>

(* Those of an appender may change at any time. *)
Tune(a, p) ==
    /\ threshold' = [threshold EXCEPT ![a] = p]
    /\ \/ a \in Sinks \cup constructed /\ UNCHANGED constructed
       \/ a \in Forwards \ constructed /\ constructed' = constructed \cup {a}
    /\ UNCHANGED <<appenders, priority, service, out, calls>>

Init ==
    /\ appenders = [b \in Backends |-> {}]
    /\ priority = [b \in Backends |-> BackendDefault]
    /\ threshold = [a \in Appenders |-> AppenderDefault]
    /\ constructed = {}
    /\ waiting = [b \in Backends |-> {}]
    /\ current = [b \in Backends |-> {}]
    /\ todo = [b \in Backends |-> {}]
    /\ at = [b \in Backends |-> {}]
    /\ out = [s \in Sinks |-> <<>>]
    /\ calls = 0

Next ==
    \/ \E b \in Backends :
          \/ Configure(b)
          \/ \E t \in Threads, p \in Priorities : Call(t, b, p)
          \/ \E m \in waiting[b] : Reject(b, m) \/ Serve(b, m)
          \/ \E m \in current[b] :
                \/ Done(b, m)
                \/ \E a \in todo[b] : Filter(b, m, a) \/ Admit(b, m, a)
                \/ \E s \in at[b] : Output(b, m, s)
    \/ \E a \in Appenders, p \in Priorities : Tune(a, p)

Spec == Init /\ [][Next]_vars
=============================================================================
