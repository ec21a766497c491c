------------------------------ MODULE VirtioNet ------------------------------
(***************************************************************************)
(* The network card as smoltcp uses it (Device for VirtioNetDev, net.rs:   *)
(* 23-55): one thread calls try_recv and send_packet one after the other,  *)
(* while the device works on both queues at any time.  A packet that was   *)
(* received may be answered at once through the TxToken that comes with    *)
(* it, and the stack may transmit at any other time.                       *)
(***************************************************************************)
EXTENDS VirtioRx, VirtioTx

NetInit == Init /\ TxInit

\* Device::receive: try_recv, while no send_packet is under way.
Receive == tx_drv = "idle" /\ Driver /\ UNCHANGED TxVars

\* TxToken::consume: send_packet, while no try_recv is under way.
Transmit == drv = "idle" /\ (Fill \/ List \/ TxPublish) /\ UNCHANGED vars

DeviceStep ==
    \/ Device /\ UNCHANGED TxVars
    \/ DevSend /\ UNCHANGED vars

NetNext == Receive \/ Transmit \/ DeviceStep

NetVars == << vars, TxVars >>

\* The loop polls for ever, and a call that has begun goes on.  Nobody is
\* obliged to transmit, and nothing is assumed of the device.
NetFairness == WF_NetVars(Receive) /\ WF_NetVars(Transmit /\ tx_drv # "idle")

NetSpec == NetInit /\ [][NetNext]_NetVars /\ NetFairness
=============================================================================
