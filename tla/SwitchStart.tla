---------------------------- MODULE SwitchStart ----------------------------
(***************************************************************************)
(* The accesses of PhySmi in the order the program makes them: ETH_Init    *)
(* resets the PHY, waits for its link, enables auto-negotiation and waits  *)
(* for its end; qdStart looks for the switch (miiSmiIfInit), whose reads   *)
(* at addresses 8, 9, 0 and 1 go through the PHY command register (those   *)
(* at 0x18, 0x19, 0x10 and 0x11, between, do not); then the switch driver  *)
(* reads and writes PHY registers, here any.  A failure of ETH_Init        *)
(* repeats lwip_comm_init, which then lacks the memory to come here again  *)
(* (Boot); one of qdStart ends the accesses.                               *)
(*                                                                         *)
(* The waits of ETH_Init read the status register without the command      *)
(* register (ETH_ReadPHYRegister); what such a read finds is free.         *)
(***************************************************************************)
EXTENDS PhySmi

CONSTANTS BCR, Reset, AutoNego   \* PHY_BCR and what ETH_Init writes into it

ASSUME StartAssumption == BCR \in Regs /\ {Reset, AutoNego} \subseteq Values /\ Reset # AutoNego

VARIABLES stage,     \* where the start-up is
          timeout,   \* of the waits of ETH_Init
          err        \* of ETH_Init

start     == <<stage, timeout, err>>
startvars == <<smivars, start>>

StartInit ==
    /\ SmiInit
    /\ stage = "reset" /\ timeout = 0 /\ err = FALSE

To(s) == stage' = s /\ UNCHANGED <<timeout, err>>
-----------------------------------------------------------------------------
(* goto error *)
Fail == stage' = "stopped" /\ err' = TRUE /\ UNCHANGED timeout

Write_PHY_SMI(v) == Command([fn |-> "Write_PHY_SMI", reg |-> BCR, val |-> v])

(* The two writes of ETH_Init into the PHY's control register. *)
Ask ==
    \/ stage = "reset" /\ Write_PHY_SMI(Reset) /\ To("resetting")
    \/ stage = "negotiate" /\ Write_PHY_SMI(AutoNego) /\ To("negotiating")

(* An error of the first write is the end, one of the second is only noted. *)
Asked ==
    /\ pc = "idle"
    /\ \/ stage = "resetting" /\ IF ret = "error" THEN Fail ELSE To("link")
       \/ stage = "negotiating" /\ stage' = "complete" /\ err' = (ret = "error") /\ UNCHANGED timeout
    /\ UNCHANGED smivars

\* Mutation: a failed wait starts again.
AwaitAgain(s, next) ==
    /\ stage = s
    /\ IF timeout + 1 = PollMax THEN timeout' = 0 /\ UNCHANGED <<stage, err>>
       ELSE \/ timeout' = timeout + 1 /\ UNCHANGED <<stage, err>>
            \/ timeout' = 0 /\ stage' = next /\ UNCHANGED err
    /\ UNCHANGED smivars

(* The status register is read until the bit is set or the count is full; a full *)
(* count is an error, whatever the last read found.                              *)
Await(s, next) ==
    /\ stage = s
    /\ IF timeout + 1 = PollMax THEN Fail
       ELSE \/ timeout' = timeout + 1 /\ UNCHANGED <<stage, err>>
            \/ timeout' = 0 /\ stage' = next /\ UNCHANGED err
    /\ UNCHANGED smivars

(* ETH_Init returns, and qdStart is only reached after a success. *)
Done ==
    /\ stage = "done"
    /\ To(IF err THEN "stopped" ELSE "scan8")
    /\ UNCHANGED smivars

ETH_Init ==
    Ask \/ Asked \/ Await("link", "negotiate") \/ Await("complete", "done") \/ Done
-----------------------------------------------------------------------------
Scans == [scan8 |-> "scanning8", scan9 |-> "scanning9",
          scan0 |-> "scanning0", scan1 |-> "scanning1"]
Scanning == {Scans[x] : x \in DOMAIN Scans}

(* An identity is read at 8, 9, 0 or 1. *)
Scan ==
    /\ stage \in DOMAIN Scans /\ To(Scans[stage])
    /\ \E r \in Regs : Command([fn |-> "gtBspReadMii", reg |-> r, val |-> None])

\* Mutation: a read that fails does not end the search.
ScannedAnyway ==
    /\ pc = "idle"
    /\ \/ stage = "scanning8" /\ To("scan9")
       \/ stage = "scanning9" /\ (To("driver") \/ To("scan0"))
       \/ stage = "scanning0" /\ To("scan1")
       \/ stage = "scanning1" /\ (To("driver") \/ To("stopped"))
    /\ UNCHANGED smivars

(* A read that fails ends the search.  Two that agree on an identity known there end *)
(* it too: the switch is found, at 8, at 0, or with no access of the registers here  *)
(* at 0x18 or 0x10.                                                                  *)
Scanned ==
    /\ pc = "idle"
    /\ \/ ret = "error" /\ stage \in Scanning /\ To("stopped")
       \/ ret = "ok" /\ stage = "scanning8" /\ To("scan9")
       \/ ret = "ok" /\ stage = "scanning9" /\ (To("driver") \/ To("scan0"))
       \/ ret = "ok" /\ stage = "scanning0" /\ To("scan1")
       \/ ret = "ok" /\ stage = "scanning1" /\ (To("driver") \/ To("stopped"))
    /\ UNCHANGED smivars

(* gprtPhyReset and the others: sequences of reads and writes. *)
Driver ==
    /\ stage = "driver"
    /\ \E r \in Regs :
          \/ Begin([fn |-> "phyRegReadPPUEn", reg |-> r, val |-> None])
          \/ \E v \in Values : Begin([fn |-> "phyRegWritePPUEn", reg |-> r, val |-> v])
    /\ UNCHANGED start

Accessing == (Proceed \/ Execute \/ PhyChanges) /\ UNCHANGED start

StartNext == ETH_Init \/ Scan \/ Scanned \/ Driver \/ Accessing

(* ETH_Init and the scan are one thread, which never waits for anything but the *)
(* switch.                                                                      *)
StartSpec ==
    /\ StartInit /\ [][StartNext]_startvars
    /\ WF_startvars(ETH_Init \/ Scan \/ Scanned)
    /\ WF_startvars(Proceed /\ UNCHANGED start)
    /\ WF_startvars(Execute /\ UNCHANGED start)
-----------------------------------------------------------------------------
Stages == {"reset", "resetting", "link", "negotiate", "negotiating", "complete", "done",
           "driver", "stopped"} \cup DOMAIN Scans \cup Scanning

StartTypeOK ==
    /\ SmiTypeOK
    /\ stage \in Stages /\ timeout \in 0 .. PollMax /\ err \in BOOLEAN

(* No command falls into one that is still being executed, although four functions    *)
(* share the registers and only the driver's look at BUSY before they give theirs:    *)
(* ETH_Init waits without a limit, and the scan is given up after its first timeout.  *)
NeverOverrun == [][(\E c \in CallType : Command(c)) \/ Give => ~busy]_startvars

(* The driver's write puts its value into the PHY register, although it returns      *)
(* before the switch has done it: until then nothing touches the data register.      *)
DriverWritesArrive ==
    [][Execute /\ cmd.fn = "phyRegWritePPUEn" => phy'[cmd.reg] = cmd.val]_startvars

(* A write that succeeds has put its value into the PHY register: "ETH_SUCCESS: for  *)
(* correct write" (stm32f4x7_eth.c:2945), and auto-negotiation is enabled (410).     *)
(* False: ETH_Init's command is executed before its value is in the data register.   *)
SuccessIsWritten == [][Data /\ call.fn \in Writers => settled = call.val]_startvars

(* The start-up gets to its end, whatever the link, the PHY and the switch do. *)
StartReturns == <>(stage \in {"driver", "stopped"})
=============================================================================
