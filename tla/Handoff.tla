------------------------------ MODULE Handoff ------------------------------
(***************************************************************************)
(* From the EarlyAppender to the real appender: a program logs into an     *)
(* EarlyAppender until it can make the appender it wants, gives that what  *)
(* has been recorded (logToAppender), attaches it and detaches the         *)
(* EarlyAppender, in any order of these calls and with or without a        *)
(* Backend::Lock.  Other threads log all the time.                         *)
(*                                                                         *)
(* A log call is one step here: the backend has one caller at a time in    *)
(* its appenders (module Backend).  logToAppender() takes no lock, and so  *)
(* is as many steps as there are entries.  A message is tested three times *)
(* on its way, by the backend, by the EarlyAppender and by the real one,   *)
(* and the priorities for that may be set at any time.                     *)
(***************************************************************************)
EXTENDS EarlyAppender

CONSTANT MaxReplays    \* bound: logToAppender calls in a behaviour

ASSUME HandoffAssumption ==
    /\ MaxReplays \in Nat
    /\ \E p \in Priorities : \A q \in Priorities : q <= p

VARIABLES
    attached,  \* the appenders of the backend: "early", "real"
    threshold, \* m_priority of the backend and of either appender
    locked,    \* has the program retrieved the Backend::Lock?
    replay,    \* the logToAppender call in progress: next, end and priority
    real,      \* what the real appender has output
    sent,      \* all messages logged
    due,       \* those that nothing on the way rejects; 0 stands for the notice
    skipped,   \* those for which no string was left, before the handover
    replays,   \* number of logToAppender calls
    handover   \* how far a handover under a single Lock has come

program == <<attached, locked, replay, replays>>
ghosts == <<sent, due, skipped>>
handoffVars == <<vars, program, threshold, real, ghosts, handover>>

None == [next |-> 0, end |-> 0, priority |-> 0]

(* The least urgent priority has the highest number: FullDebug *)
Lowest == CHOOSE p \in Priorities : \A q \in Priorities : q <= p

(* What the real appender outputs of an entry, and of a message *)
Lines == [id : Nat, priority : Priorities, notice : BOOLEAN]
Line(e) == [id |-> e.id, priority |-> e.priority, notice |-> e.notice]
Told(m) == [id |-> m.id, priority |-> m.priority, notice |-> FALSE]

ProgramTypes ==
    /\ attached \subseteq {"early", "real"}
    /\ threshold \in [{"backend", "early", "real"} -> Priorities]
    /\ locked \in BOOLEAN
    /\ replay \in [next : Nat, end : Nat, priority : Nat]
    /\ replays \in Nat
    /\ real \in Seq(Lines)
    /\ sent \in Seq(Messages)
    /\ due \subseteq {0} \cup DOMAIN sent
    /\ skipped \subseteq DOMAIN sent
    /\ handover \in {"none", "replayed", "done", "broken"}

HandoffTypeOK == TypeOK /\ ProgramTypes

Replaying == replay # None

-----------------------------------------------------------------------------
(* Logging *)

(* The tests of Backend::doLog and of Appender::log *)
Reaches(m, x) ==
    /\ m.priority <= threshold["backend"]
    /\ x \in attached /\ m.priority <= threshold[x]

(* No threshold on the way of m to the real appender rejects it. *)
Due(m) ==
    /\ m.priority <= threshold["backend"] /\ m.priority <= threshold["real"]
    /\ handover = "done" \/ m.priority <= threshold["early"]

(* Such a message is lost to the real appender where nobody records it, or *)
(* where it is recorded after the replay and before that is attached.      *)
Missed(m) ==
    /\ Due(m)
    /\ \/ handover = "none" /\ "early" \notin attached
       \/ handover = "replayed"

Judge(m) ==
    /\ sent' = Append(sent, m)
    /\ due' = IF Due(m) THEN due \cup {m.id} ELSE due
    /\ skipped' = IF handover = "none" /\ Reaches(m, "early") /\ free = <<>>
                  THEN skipped \cup {m.id} ELSE skipped
    /\ handover' = IF Missed(m) THEN "broken" ELSE handover

(* The backend gives the message to all that are attached.  Another thread *)
(* does this while the backend is not locked, the program itself at any    *)
(* time when it is in no other call.                                       *)
Log(m) ==
    /\ ~ locked \/ ~ Replaying
    /\ IF Reaches(m, "early")
       THEN DoLog(m)
       ELSE /\ defined /\ calls < MaxCalls /\ m.id = calls + 1
            /\ calls' = calls + 1
            /\ UNCHANGED <<entries, free, oomMessage, oom, offered, lost,
                           defined, clears>>
    /\ real' = IF Reaches(m, "real") THEN Append(real, Told(m)) ELSE real
    /\ Judge(m)
    /\ UNCHANGED <<program, threshold>>

PriorityOf(k) == IF k = 0 THEN ErrorPriority ELSE sent[k].priority

(* Backend::setPriority, under the mutex of the backend, and setPriority   *)
(* of either appender, under none                                          *)
SetPriority(x, p) ==
    /\ x = "backend" => ~ locked \/ ~ Replaying
    /\ threshold' = [threshold EXCEPT ![x] = p]
    /\ due' = IF x = "real" /\ handover # "done"
              THEN {k \in due : PriorityOf(k) <= p} ELSE due
    /\ UNCHANGED <<vars, program, real, sent, skipped, handover>>

-----------------------------------------------------------------------------
(* The program *)

(* logToAppender(appender, priority), or (appender) where priority is the  *)
(* lowest: the end of the range-for is that of m_entries when it begins.   *)
BeginReplay(p) ==
    /\ ~ Replaying
    /\ defined
    /\ replays < MaxReplays
    /\ replays' = replays + 1
    /\ replay' = [next |-> 1, end |-> Len(entries), priority |-> p]
    /\ handover' = IF /\ handover = "none" /\ locked /\ real = <<>>
                      /\ clears = 0 /\ p = Lowest
                      /\ "real" \notin attached
                   THEN handover ELSE "broken"
    /\ UNCHANGED <<vars, attached, threshold, locked, real, ghosts>>

(* Mutant: "<" *)
ReplayedStrict(e) ==
    IF e.priority < replay.priority /\ e.priority <= threshold["real"]
    THEN <<Line(e)>> ELSE <<>>

(* The test of logToAppender, and that of Appender::log *)
Replayed(e) ==
    IF e.priority <= replay.priority /\ e.priority <= threshold["real"]
    THEN <<Line(e)>> ELSE <<>>

ReplayNext ==
    /\ Replaying
    /\ replay.next <= replay.end
    /\ real' = real \o Replayed(entries[replay.next])
    /\ replay' = [replay EXCEPT !.next = @ + 1]
    /\ UNCHANGED <<vars, attached, threshold, locked, replays, ghosts, handover>>

EndReplay ==
    /\ Replaying
    /\ replay.next > replay.end
    /\ replay' = None
    /\ handover' = IF handover = "none" THEN "replayed" ELSE handover
    /\ UNCHANGED <<vars, attached, threshold, locked, replays, real, ghosts>>

(* The other calls, one after the other *)
Program ==
    /\ ~ Replaying
    /\ UNCHANGED <<replay, threshold, replays, real, ghosts>>

Retrieve ==
    /\ Program
    /\ ~ locked
    /\ locked' = TRUE
    /\ UNCHANGED <<vars, attached, handover>>

Release ==
    /\ Program
    /\ locked
    /\ locked' = FALSE
    /\ handover' = IF handover = "replayed" THEN "broken" ELSE handover
    /\ UNCHANGED <<vars, attached>>

AttachReal ==
    /\ Program
    /\ attached' = attached \cup {"real"}
    /\ handover' = CASE "real" \in attached -> handover
                     [] handover = "replayed" -> "done"
                     [] OTHER -> "broken"
    /\ UNCHANGED <<vars, locked>>

DetachEarly ==
    /\ Program
    /\ attached' = attached \ {"early"}
    /\ UNCHANGED <<vars, locked, handover>>

(* clear(), when nobody can be in doLog *)
ClearEarly ==
    /\ Program
    /\ locked \/ "early" \notin attached
    /\ Clear \/ ClearEmpty
    /\ UNCHANGED <<attached, locked, handover>>

-----------------------------------------------------------------------------

HandoffInit ==
    /\ Init
    /\ attached = {"early"}
    /\ \E p \in Priorities :
          threshold = [x \in {"backend", "early", "real"} |->
                          IF x = "backend" THEN p ELSE Lowest]
    /\ locked = FALSE
    /\ replay = None
    /\ real = <<>>
    /\ sent = <<>> /\ due = {0} /\ skipped = {}
    /\ replays = 0
    /\ handover = "none"

HandoffNext ==
    \/ \E len \in Lengths, p \in Priorities :
          Log([id |-> calls + 1, len |-> len, priority |-> p])
    \/ \E x \in {"backend", "early", "real"}, p \in Priorities : SetPriority(x, p)
    \/ \E p \in Priorities : BeginReplay(p)
    \/ ReplayNext \/ EndReplay
    \/ Retrieve \/ Release
    \/ AttachReal \/ DetachEarly \/ ClearEarly

HandoffSpec == HandoffInit /\ [][HandoffNext]_handoffVars

-----------------------------------------------------------------------------
(* Properties *)

(* The notice is output in place of the first message that was skipped. *)
FirstSkipped(line) ==
    /\ line.priority = ErrorPriority
    /\ line.id \in skipped /\ \A k \in skipped : line.id <= k

RealHasAll ==
    /\ \A i, j \in DOMAIN real : i < j => real[i].id < real[j].id
    /\ \A i \in DOMAIN real :
          IF real[i].notice THEN FirstSkipped(real[i])
          ELSE real[i].id \in DOMAIN sent /\ real[i] = Told(sent[real[i].id])
    /\ \A k \in due \ {0} :
          k \in skipped \/ \E i \in DOMAIN real : real[i] = Told(sent[k])
    /\ 0 \in due /\ skipped # {} => \E i \in DOMAIN real : real[i].notice

(***************************************************************************)
(* Under one Lock, the recorded messages replayed and the real appender    *)
(* attached: then that has output messages that were logged, in the order  *)
(* in which they were logged and each once; and among them is every one    *)
(* that the priorities of the backend and of both appenders admitted when  *)
(* it was logged, and that of the real appender up to the handover.  Only  *)
(* messages for which the EarlyAppender had no string are missing, and in  *)
(* place of the first of them there is a notice at the priority Error,     *)
(* which has to be admitted too.                                           *)
(***************************************************************************)
HandoverComplete == handover = "done" => RealHasAll

(***************************************************************************)
(* The entries that logToAppender() walks, under no lock of its own, stay  *)
(* where and as they are until it returns, whoever logs meanwhile.         *)
(***************************************************************************)
ReplayUndisturbed ==
    [][Replaying =>
          \A i \in replay.next .. replay.end :
             i \in DOMAIN entries /\ entries'[i] = entries[i]]_handoffVars
=============================================================================
