------------------------------ MODULE MC_Devices ------------------------------
(***************************************************************************)
(* The drivers of the network card, of the disk and of the clock.  The     *)
(* kernel has one thread, and the three share no variable: each is         *)
(* explored with the other two at rest.                                    *)
(***************************************************************************)
EXTENDS VirtioNet, BlkDriver, Rtc

VARIABLE active   \* the device that is in use

all == << NetVars, blk_vars, rtc_vars, active >>

AtRest == (\A y \in StartYears : year <= y) /\ ~binary

DevicesInit ==
    /\ NetInit /\ BlkInit /\ RtcInit
    /\ active \in {"net", "blk", "rtc"} /\ (active # "rtc" => AtRest)

NetStep == active = "net" /\ NetNext /\ UNCHANGED << blk_vars, rtc_vars, active >>
BlkStep == active = "blk" /\ BlkNext /\ UNCHANGED << NetVars, rtc_vars, active >>
RtcStep == active = "rtc" /\ RtcNext /\ UNCHANGED << NetVars, blk_vars, active >>

DevicesNext == NetStep \/ BlkStep \/ RtcStep

DevicesSpec ==
    /\ DevicesInit /\ [][DevicesNext]_all
    /\ NetFairness /\ BlkFairness

===============================================================================
