------------------------------- MODULE PhySmi -------------------------------
(***************************************************************************)
(* Indirect access to the PHYs inside the switch.  A PHY register is       *)
(* reached through two registers of the switch's Global 2 block (0x1C):    *)
(* the caller writes a command with BUSY set, polls until the switch has   *)
(* executed it and cleared BUSY, and moves the value through the data      *)
(* register.  Six functions do this: Read_PHY_SMI and Write_PHY_SMI of the *)
(* Ethernet driver, gtBspReadMii and gtBspWriteMii of the board support,   *)
(* phyRegReadPPUEn and phyRegWritePPUEn of the switch driver.  Here they   *)
(* are called in any order; SwitchStart has the order of the program.      *)
(*                                                                         *)
(* The switch (external) executes a command at some later moment: a read   *)
(* puts the PHY register into the data register, a write puts the data     *)
(* register, as it is at that moment, into the PHY register (the switch    *)
(* driver's functions rely on it: the value first, then the command).  One *)
(* MDIO transfer under these accesses is one step.  All callers are in the *)
(* main thread.                                                            *)
(***************************************************************************)
EXTENDS Integers

CONSTANTS Regs,     \* PHY registers
          Values,   \* their contents
          PollMax,  \* PHY_READ_TO, PHY_WRITE_TO, the 10 of gtBsp*Mii and
                    \* QD_SMI_ACCESS_LOOP
          None

ASSUME SmiAssumption == PollMax \in Nat \ {0} /\ None \notin Values

Readers == {"Read_PHY_SMI", "gtBspReadMii", "phyRegReadPPUEn"}
Writers == {"Write_PHY_SMI", "gtBspWriteMii", "phyRegWritePPUEn"}
PPUEn   == {"phyRegReadPPUEn", "phyRegWritePPUEn"}
NoCall  == [fn |-> None, reg |-> None, val |-> None]

VARIABLES busy, cmd,     \* QD_REG_SMI_PHY_CMD
          data,          \* QD_REG_SMI_PHY_DATA
          phy,           \* the PHY's registers
          call,          \* the call in progress: function, register, value
          pc, polls,     \* where it is; polls that found BUSY set
          ret,           \* result of the last call: "ok" or "error"
          value,         \* what the last read gave its caller, None if nothing
          settled        \* history: what the PHY register held when the switch
                         \* executed the last command

hw      == <<busy, cmd, data, phy, settled>>
smivars == <<hw, call, pc, polls, ret, value>>

SmiInit ==
    /\ busy = FALSE /\ cmd = NoCall
    /\ data \in Values
    /\ phy \in [Regs -> Values]
    /\ call = NoCall /\ pc = "idle" /\ polls = 0
    /\ ret = "ok" /\ value = None /\ settled = None
-----------------------------------------------------------------------------
(* The switch executes the command. *)
Execute ==
    /\ busy
    /\ busy' = FALSE
    /\ IF cmd.fn \in Readers
       THEN data' = phy[cmd.reg] /\ UNCHANGED phy
       ELSE phy' = [phy EXCEPT ![cmd.reg] = data] /\ UNCHANGED data
    /\ settled' = phy'[cmd.reg]
    /\ UNCHANGED <<cmd, call, pc, polls, ret, value>>

(* A status register changes by itself. *)
PhyChanges ==
    /\ \E r \in Regs : \E v \in Values \ {phy[r]} : phy' = [phy EXCEPT ![r] = v]
    /\ UNCHANGED <<busy, cmd, data, settled, call, pc, polls, ret, value>>
-----------------------------------------------------------------------------
Finish(result) ==
    /\ pc' = "idle"
    /\ polls' = 0
    /\ ret' = result

Called(c) ==
    /\ pc = "idle"
    /\ call' = c
    /\ value' = (IF c.fn \in Readers THEN None ELSE value)

(* The command is written, with BUSY, without a look at what it was before. *)
Command(c) ==
    /\ c.fn \notin PPUEn
    /\ Called(c)
    /\ busy' = TRUE
    /\ cmd' = c
    /\ pc' = "poll"
    /\ UNCHANGED <<data, phy, settled, polls, ret>>

(* The switch driver waits for BUSY to be clear first. *)
Begin(c) ==
    /\ c.fn \in PPUEn
    /\ Called(c)
    /\ pc' = "wait"
    /\ UNCHANGED <<hw, polls, ret>>

Access(c)   == Command(c) \/ Begin(c)
Read(r)     == \E f \in Readers : Access([fn |-> f, reg |-> r, val |-> None])
Write(r, v) == \E f \in Writers : Access([fn |-> f, reg |-> r, val |-> v])

\* Mutation: the busy bit is not polled.
PollNever ==
    /\ pc = "poll"
    /\ pc' = "data"
    /\ UNCHANGED <<hw, call, polls, ret, value>>

(* while (busy && timeout < PHY_READ_TO) of Read_PHY_SMI, and its verdict: the *)
(* count and not BUSY decides.                                                 *)
PollRead ==
    /\ call.fn = "Read_PHY_SMI"
    /\ \/ /\ busy /\ polls < PollMax
          /\ polls' = polls + 1
          /\ UNCHANGED <<pc, ret>>
       \/ polls = PollMax /\ Finish("error")
       \/ /\ ~busy /\ polls < PollMax
          /\ pc' = "data"
          /\ UNCHANGED <<polls, ret>>

(* The loop of Write_PHY_SMI has no bound, and only a count that is PHY_WRITE_TO *)
(* when BUSY clears is an error; PollMax + 1 stands for every larger count.      *)
PollWrite ==
    /\ call.fn = "Write_PHY_SMI"
    /\ \/ /\ busy
          /\ polls' = (IF polls <= PollMax THEN polls + 1 ELSE polls)
          /\ UNCHANGED <<pc, ret>>
       \/ ~busy /\ polls = PollMax /\ Finish("error")
       \/ /\ ~busy /\ polls # PollMax
          /\ pc' = "data"
          /\ UNCHANGED <<polls, ret>>

(* gtBspReadMii, gtBspWriteMii and the two loops of the switch driver: one look, *)
(* then a do loop whose count runs out whatever BUSY is by then.                 *)
Look(next, late) ==
    \/ polls = PollMax + 1 /\ Finish(late)
    \/ /\ polls <= PollMax
       /\ IF busy THEN polls' = polls + 1 /\ UNCHANGED pc
          ELSE pc' = next /\ polls' = (IF next = "give" THEN 0 ELSE polls)
       /\ UNCHANGED ret

PollBsp == call.fn \in {"gtBspReadMii", "gtBspWriteMii"} /\ Look("data", "error")

(* GT_FALSE, which a loop that has run out returns here, is the value of GT_OK. *)
PollPPUEn == call.fn = "phyRegReadPPUEn" /\ Look("data", "ok")

Poll ==
    /\ pc = "poll"
    /\ PollRead \/ PollWrite \/ PollBsp \/ PollPPUEn
    /\ UNCHANGED <<hw, call, value>>

(* The loops before the command: GT_FAIL from the one, GT_FALSE from the other. *)
Wait ==
    /\ pc = "wait"
    /\ Look("give", IF call.fn = "phyRegReadPPUEn" THEN "error" ELSE "ok")
    /\ UNCHANGED <<hw, call, value>>

\* Mutation: the value is not in the data register when the command is given.
GiveCommandOnly ==
    /\ pc = "give"
    /\ busy' = TRUE /\ cmd' = call
    /\ IF call.fn = "phyRegReadPPUEn"
       THEN pc' = "poll" /\ UNCHANGED <<polls, ret>>
       ELSE Finish("ok")
    /\ UNCHANGED <<data, phy, settled, call, value>>

(* The switch driver's command.  For a write the value is put into the data *)
(* register before it, and nothing waits for the switch after it.           *)
Give ==
    /\ pc = "give"
    /\ busy' = TRUE /\ cmd' = call
    /\ IF call.fn = "phyRegReadPPUEn"
       THEN pc' = "poll" /\ UNCHANGED <<data, polls, ret>>
       ELSE data' = call.val /\ Finish("ok")
    /\ UNCHANGED <<phy, settled, call, value>>

(* The data register is read, or the value is written into it. *)
Data ==
    /\ pc = "data"
    /\ IF call.fn \in Readers
       THEN value' = data /\ UNCHANGED data
       ELSE data' = call.val /\ UNCHANGED value
    /\ Finish("ok")
    /\ UNCHANGED <<busy, cmd, phy, settled, call>>

Calls ==
    \/ \E r \in Regs : Read(r)
    \/ \E r \in Regs, v \in Values : Write(r, v)

Proceed == Poll \/ Wait \/ Give \/ Data

SmiNext == Calls \/ Proceed \/ Execute \/ PhyChanges

SmiSpec == SmiInit /\ [][SmiNext]_smivars
-----------------------------------------------------------------------------
CallType == [fn : Readers \cup Writers \cup {None}, reg : Regs \cup {None}, val : Values \cup {None}]

SmiTypeOK ==
    /\ busy \in BOOLEAN /\ cmd \in CallType /\ call \in CallType
    /\ data \in Values /\ phy \in [Regs -> Values]
    /\ pc \in {"idle", "wait", "give", "poll", "data"} /\ polls \in 0 .. PollMax + 2
    /\ ret \in {"ok", "error"}
    /\ value \in Values \cup {None} /\ settled \in Values \cup {None}

(* The switch is only still busy between calls when the last one ran into its  *)
(* timeout, or was the driver's, which looks at BUSY before the next command.   *)
CommandWhenIdle == pc = "idle" /\ busy => ret = "error" \/ call.fn \in PPUEn

(* A read that succeeds returns what its PHY register held when the switch read *)
(* it: never an older value, nor the one written last, nor another register's.  *)
ReadIsFresh == [][Data /\ call.fn \in Readers => value' = settled /\ cmd = call]_smivars
=============================================================================
