------------------------------- MODULE DataPath --------------------------------
(***************************************************************************)
(* The parts data passes on its way, each by itself: a generator that has  *)
(* others, senders and receivers and the transfer plugins between them,    *)
(* the policies and the connections of the routing manager, and in the art *)
(* processes the input, the output to a logger, the monitor and the files. *)
(* They share no state, and part says which of them a behaviour is about.  *)
(***************************************************************************)
EXTENDS Transfers, CompositeDriver, DataLink, RoutingPolicies, TableConnections, ArtInput, ArtOutput, MonitorInput, OutputFile

artVars == <<inputVars, outputVars, monitorVars, fileVars>>
otherVars == <<compositeVars, linkVars, routeVars, connVars, artVars>>
pathVars == <<part, pluginVars, otherVars>>

Parts == Plugins \cup {"composite", "link", "policy", "connections", "input", "output", "monitor", "file"}

\* Each part begins as it may; where one is not meant, one beginning of it will do.
PathInit ==
  /\ part \in Parts
  /\ TransfersInit /\ CompositeInit /\ LinkInit /\ PolicyInit /\ ConnInit
  /\ InputInit /\ OutputInit /\ MonitorInit /\ FileInit
  /\ part # "composite" => declares
  /\ part # "link" => lconf = [mode |-> "blocking", dest |-> 1]
  /\ part # "policy" => policy = "RoundRobin" /\ flow = "DataFlow" /\ minimumP = Lowest(Minimums)
  /\ part # "input" => daq.kind = "builder" /\ daq.resume_after_timeout_
  /\ part # "output" => kept = {} /\ selects
  /\ part # "monitor" => mconf = [wrapper |-> "transfer", multi_run_mode_ |-> FALSE]

PathNext ==
  /\ UNCHANGED part
  /\ \/ part \in Plugins /\ TransfersNext /\ UNCHANGED otherVars
     \/ part = "composite" /\ CompositeNext /\ UNCHANGED <<pluginVars, linkVars, routeVars, connVars, artVars>>
     \/ part = "link" /\ LinkNext /\ UNCHANGED <<pluginVars, compositeVars, routeVars, connVars, artVars>>
     \/ part = "policy" /\ PolicyNext /\ UNCHANGED <<pluginVars, compositeVars, linkVars, connVars, artVars>>
     \/ part = "connections" /\ ConnNext /\ UNCHANGED <<pluginVars, compositeVars, linkVars, routeVars, artVars>>
     \/ /\ UNCHANGED <<pluginVars, compositeVars, linkVars, routeVars, connVars>>
        /\ \/ part = "input" /\ InputNext /\ UNCHANGED <<outputVars, monitorVars, fileVars>>
           \/ part = "output" /\ OutputNext /\ UNCHANGED <<inputVars, monitorVars, fileVars>>
           \/ part = "monitor" /\ MonitorNext /\ UNCHANGED <<inputVars, outputVars, fileVars>>
           \/ part = "file" /\ FileNext /\ UNCHANGED <<inputVars, outputVars, monitorVars>>

(***************************************************************************)
(* What goes on without anyone's doing.  In a receiver of the TCP plugin,  *)
(* the threads that receive and accept, and the sender's end that is on    *)
(* its way down.  Of the policies: receivers free their buffers, and       *)
(* senders ask again until they have a route.  Of the connections: the     *)
(* threads, and the routing manager accepts what is connected; requests do *)
(* not follow each other so closely for ever that epoll_wait never waits   *)
(* its millisecond in vain, for tokens and routes come to an end.          *)
(***************************************************************************)
PathFairness ==
  /\ WF_tcpVars(part = "TCPSocket" /\ Receiver)
  /\ WF_tcpVars(part = "TCPSocket" /\ Accept)
  /\ WF_tcpVars(part = "TCPSocket" /\ ListenEnds)
  /\ WF_linkVars(part = "link" /\ ThreadStep)
  /\ WF_routeVars(part = "policy" /\ \E b \in Receivers, n \in 1..2 : AddTokens(b, n))
  /\ WF_routeVars(part = "policy" /\ \E e \in RouteIDs, s \in Requesters : GetRoute(e, s))
  /\ WF_connVars(part = "connections" /\ ReaderStep)
  /\ WF_connVars(part = "connections" /\ AskerStep)
  /\ WF_connVars(part = "connections" /\ \E c \in TableConn : Listen(c))
  /\ WF_connVars(part = "connections" /\ ManagerStep)
  /\ SF_connVars(part = "connections" /\ ReceiveEnds)

PathSpec == PathInit /\ [][PathNext]_pathVars /\ PathFairness
===============================================================================
