----------------------------- MODULE MonitorInput -----------------------------
(***************************************************************************)
(* The input of an online monitor.  A TransferWrapper registers with the   *)
(* Dispatcher, which starts an art process that sends to it; a             *)
(* ListenTransferWrapper listens to an art process the Dispatcher runs     *)
(* anyhow.  That process has a TransferOutput, which sends an Init         *)
(* message, events, the ends of subruns and, when it is destroyed, the end *)
(* of data.  Either wrapper hands messages to ArtdaqInputHelper.           *)
(***************************************************************************)
EXTENDS Integers, Sequences

CONSTANTS MonitorRuns,            \* bound: runs of the Dispatcher
          MonitorWire,            \* bound: messages under way
          MonitorData,            \* bound: events of a run
          maxEventsBeforeInit_,
          send_retry_count_

ASSUME MonitorAssumption ==
  /\ MonitorRuns \in Nat /\ MonitorWire \in Nat \ {0} /\ MonitorData \in Nat
  /\ maxEventsBeforeInit_ \in Nat /\ send_retry_count_ \in Nat

VARIABLES
  mconf,   \* which wrapper, and multi_run_mode_ (allowMultipleRuns)
  disp,    \* the Dispatcher: its status and run
  sender,  \* its art process: what it has sent
  mwire,   \* the messages under way to the monitor
  mon,     \* the wrapper; whether its connection was closed, and why its art process ended
  handed   \* the message handed to art last, and the runs whose Init message was

monitorVars == <<mconf, disp, sender, mwire, mon, handed>>

Silent == [state |-> "none", run |-> 0, events |-> 0]

MonitorInit ==
  /\ mconf \in [wrapper : {"transfer", "listen"}, multi_run_mode_ : BOOLEAN]
  /\ disp = [status |-> "Ready", run |-> 0]
  /\ sender = Silent
  /\ mwire = <<>>
  /\ mon = [registered |-> FALSE, initialized |-> FALSE, fragments_received |-> 0,
            closed |-> FALSE, why |-> "none"]
  /\ handed = [type |-> "none", run |-> 0, inits |-> {}]

-----------------------------------------------------------------------------
(* The Dispatcher and its art process. *)

DispatcherStarts ==
  /\ disp.status = "Ready" /\ disp.run < MonitorRuns
  /\ disp' = [status |-> "Running", run |-> disp.run + 1]
  /\ sender' = IF mconf.wrapper = "listen" THEN [Silent EXCEPT !.state = "started", !.run = disp.run + 1]
                                           ELSE sender
  /\ UNCHANGED <<mconf, mwire, mon, handed>>

DispatcherStops ==
  /\ disp.status = "Running"
  /\ disp' = [disp EXCEPT !.status = "busy"]
  /\ sender' = IF sender.state = "none" THEN sender ELSE [sender EXCEPT !.state = "ending"]
  /\ UNCHANGED <<mconf, mwire, mon, handed>>

DispatcherStopped ==
  /\ disp.status = "busy" /\ sender.state = "none"
  /\ disp' = [disp EXCEPT !.status = "Ready"]
  /\ UNCHANGED <<mconf, sender, mwire, mon, handed>>

\* What arrives of at most two messages that are sent in a row.
Arrivals(types) == {<<>>, types} \cup {<<types[i]>> : i \in DOMAIN types}

\* SendMessage: an attempt may fail or the message be lost on the way; after the last
\* attempt the process kills itself, and it does even if that one succeeded.
SendMessage(types, next) ==
  /\ Len(mwire) < MonitorWire
  /\ \E retries \in 1 .. send_retry_count_ + 1, sent \in BOOLEAN, arrived \in Arrivals(types) :
       /\ ~sent => retries = send_retry_count_ + 1 /\ arrived = <<>>
       /\ mwire' = mwire \o [i \in DOMAIN arrived |-> [type |-> arrived[i], run |-> sender.run]]
       /\ sender' = IF retries > send_retry_count_ THEN Silent ELSE next
  /\ UNCHANGED <<mconf, disp, mon, handed>>

SendEvent ==
  /\ sender.state \in {"started", "sending"} /\ sender.events < MonitorData
  /\ SendMessage((IF sender.state = "started" THEN <<"Init">> ELSE <<>>) \o <<"Data">>,
                 [sender EXCEPT !.state = "sending", !.events = @ + 1])

SendEndOfSubrun ==
  /\ sender.state \in {"sending", "ending"} /\ sender.events > 0
  /\ SendMessage(<<"EndOfSubrun">>, [sender EXCEPT !.events = IF sender.state = "ending" THEN 0 ELSE @])

\* The destructor sends the end of data, once.
SendEndOfData ==
  /\ sender.state = "ending" /\ sender.events = 0
  /\ SendMessage(<<"EndOfData">>, Silent)

-----------------------------------------------------------------------------
(* The monitor: receiveMessage, called by art for each message. *)

Ready == mon.why = "none"
Quits(why) == mon' = [mon EXCEPT !.why = why]
\* bound: nobody asks how far past the limit it is
Counted == IF mon.fragments_received > maxEventsBeforeInit_ THEN mon.fragments_received
                                                            ELSE mon.fragments_received + 1

\* registerMonitor: a new transfer plugin, then a wait for the Dispatcher to run (there is
\* no limit by default), then three attempts.  With none art gets nothing and ends.
registerMonitor ==
  /\ Ready /\ mconf.wrapper = "transfer" /\ ~mon.registered /\ disp.status = "Running"
  /\ mwire' = <<>>
  /\ \/ /\ mon' = [mon EXCEPT !.registered = TRUE]
        /\ sender' = [Silent EXCEPT !.state = "started", !.run = disp.run]
     \/ Quits("not registered") /\ UNCHANGED sender
  /\ UNCHANGED <<mconf, disp, handed>>

\* unregisterMonitor gives up, and the monitor stays registered, if the Dispatcher does not
\* answer or is not Running or Ready after 5 s; otherwise it is taken for done, also if all
\* attempts fail.
Unregistered ==
  {mon.registered} \cup (IF disp.status \in {"Running", "Ready"} THEN {FALSE} ELSE {})

\* Mutant: the next run goes on with the Init message of this one.
EndsRun_keeps(registered) == [mon EXCEPT !.registered = registered]

EndsRun(registered) == [mon EXCEPT !.registered = registered, !.initialized = FALSE]

\* DATA_END: the connection is closed and nothing is left to read.
DataEnd ==
  /\ Ready
  /\ mon.registered \/ (mconf.wrapper = "listen" /\ disp.run > 0)
  /\ mwire = <<>> /\ sender.state = "none"
  /\ IF ~mconf.multi_run_mode_ THEN Quits("DATA_END")
     ELSE \E registered \in IF mconf.wrapper = "listen" THEN {mon.registered} ELSE Unregistered :
            mon' = [EndsRun(registered) EXCEPT !.closed = TRUE]
  /\ UNCHANGED <<mconf, disp, sender, mwire, handed>>

\* ArtdaqInputHelper: the first message is its Init message, and each later one without a
\* Data Fragment is its last.
Hands(msg) ==
  /\ mon' = [mon EXCEPT !.initialized = TRUE, !.fragments_received = Counted,
                        !.why = IF handed.type = "none" \/ msg.type = "Data" THEN "none" ELSE msg.type]
  /\ handed' = [type |-> msg.type, run |-> msg.run,
                inits |-> IF msg.type = "Init" THEN handed.inits \cup {msg.run} ELSE handed.inits]

Drops == mon' = [mon EXCEPT !.fragments_received = Counted] /\ UNCHANGED handed

\* Without an Init message events are dropped, up to a number counted over all runs.
DropsEarly ==
  /\ mon' = [mon EXCEPT !.fragments_received = Counted,
                        !.why = IF Counted > maxEventsBeforeInit_ THEN "throw" ELSE "none"]
  /\ UNCHANGED handed

\* What a listener skips.
Ignored == {"EndOfSubrun", "EndOfRun"} \cup (IF mon.initialized THEN {"Init"} ELSE {})

receiveMessage ==
  /\ Ready /\ mwire # <<>> /\ (mconf.wrapper = "transfer" => mon.registered)
  /\ LET msg == Head(mwire) IN
     CASE msg.type = "EndOfData" /\ ~mconf.multi_run_mode_ -> Quits("EndOfData") /\ UNCHANGED handed
       [] msg.type = "EndOfData" /\ mconf.wrapper = "listen" -> Drops
       [] msg.type = "EndOfData" /\ mconf.wrapper = "transfer" ->
            (\E registered \in Unregistered : mon' = EndsRun(registered)) /\ UNCHANGED handed
       [] msg.type # "EndOfData" /\ mconf.wrapper = "listen" /\ msg.type \in Ignored -> Drops
       [] OTHER -> IF mon.initialized \/ msg.type = "Init" THEN Hands(msg) ELSE DropsEarly
  /\ mwire' = Tail(mwire)
  /\ UNCHANGED <<mconf, disp, sender>>

MonitorNext ==
  \/ DispatcherStarts \/ DispatcherStops \/ DispatcherStopped
  \/ SendEvent \/ SendEndOfSubrun \/ SendEndOfData
  \/ registerMonitor \/ DataEnd \/ receiveMessage

MonitorSpec == MonitorInit /\ [][MonitorNext]_monitorVars

-----------------------------------------------------------------------------
\* A registered monitor gives art no event of a run whose Init message it did not give it
\* before, whichever messages are lost and however the runs before ended.
InitBeforeEvents == mconf.wrapper = "transfer" /\ handed.type = "Data" => handed.run \in handed.inits

\* The art process of a listener that is to see several runs ends only if no Init message
\* comes for too long, or one comes after the connection was lost.
ListenerLives == mconf = [wrapper |-> "listen", multi_run_mode_ |-> TRUE] => mon.why \in {"none", "throw"} \/ mon.closed


\* A monitor follows the runs it is to see.
MonitorsFollow == InitBeforeEvents /\ ListenerLives
=============================================================================
