------------------------------ MODULE Transfers -------------------------------
(***************************************************************************)
(* The transfer plugins.  A transfer is one of them; they share no state,  *)
(* and each is run by itself: part says which.                             *)
(***************************************************************************)
EXTENDS SendData, TCPSocketTransfer, MulticastTransfer, BundleTransfer, ShmemTransfer

VARIABLE part

pluginVars == <<sendVars, tcpVars, mcVars, bundleVars, shmemVars>>

Plugins == {"sendData_", "TCPSocket", "Multicast", "Bundle", "Shmem"}

TransfersInit ==
  /\ SendInit /\ TCPInit /\ MulticastInit /\ BundleInit /\ ShmemInit
  /\ part # "sendData_" => iov_in[1].len = 0    \* one message will do

TransfersNext ==
  \/ part = "sendData_" /\ SendMsg /\ UNCHANGED <<tcpVars, mcVars, bundleVars, shmemVars>>
  \/ part = "TCPSocket" /\ TCPNext /\ UNCHANGED <<sendVars, mcVars, bundleVars, shmemVars>>
  \/ part = "Multicast" /\ MulticastNext /\ UNCHANGED <<sendVars, tcpVars, bundleVars, shmemVars>>
  \/ part = "Bundle" /\ BundleNext /\ UNCHANGED <<sendVars, tcpVars, mcVars, shmemVars>>
  \/ part = "Shmem" /\ ShmemNext /\ UNCHANGED <<sendVars, tcpVars, mcVars, bundleVars>>

TransfersSpec == TransfersInit /\ [][TransfersNext /\ UNCHANGED part]_<<part, pluginVars>>

\* No receiver is handed a Fragment made of parts of several, and what a sender hands to a
\* socket is its message, however the socket takes it.  Bundles and shared memory hand over
\* what they were given, once and in order, but for what was dropped whole, overwritten or
\* flushed.
FragmentsIntact ==
  FragmentsWhole /\ MulticastWhole /\ MessageExact /\ BundleInOrder /\ ShmemInOrder
=============================================================================
