---------------------------- MODULE Board_proofs ----------------------------
(***************************************************************************)
(* What the program promises about the board's peripherals: access to the  *)
(* PHYs and its order at start-up (PhySmi, SwitchStart), the serial line   *)
(* (Usart) and the clock of the stack (LocalTime), for every value of      *)
(* their constants.                                                        *)
(*                                                                         *)
(* AccessInv says what an access in progress may rely on: from its command *)
(* on the command register is its own, BUSY is clear once the poll was     *)
(* left, and what the switch read is still in the data register.  StartInv *)
(* adds, for the order of the program, that the switch is idle whenever a  *)
(* function that does not look gives a command, and what the data register *)
(* holds while a write waits for the switch.                               *)
(*                                                                         *)
(* SerialInv says that the word of the serial line is a count and two      *)
(* flags, LineInv that what it counts is what was received last.  ClockInv *)
(* says how far the counter can be ahead of the time that passed.          *)
(***************************************************************************)
EXTENDS SwitchStart, Usart, LocalTime, TLAPS

-----------------------------------------------------------------------------
(* Access to the PHYs. *)

Commands == [fn : Readers, reg : Regs, val : {None}] \cup [fn : Writers, reg : Regs, val : Values]

AccessInv ==
    /\ SmiTypeOK
    /\ busy => cmd \in Commands
    /\ pc # "idle" => call \in Commands
    /\ pc \in {"wait", "give"} => call.fn \in PPUEn
    /\ pc \in {"poll", "data"} => cmd = call
    /\ pc \in {"give", "data"} => busy = FALSE
    /\ pc \in {"poll", "data"} /\ busy = FALSE /\ call.fn \in Readers => data = settled
    /\ CommandWhenIdle

LEMMA CommandsAreCalls == Commands \subseteq CallType
  BY DEF Commands, CallType

LEMMA Functions ==
    \A c \in Commands : /\ c.fn \in Readers \/ c.fn \in Writers
                        /\ c.reg \in Regs
                        /\ c.fn \in Writers => c.val \in Values
  BY DEF Commands, Readers, Writers

LEMMA InitAccess == SmiInit => AccessInv
<1> SUFFICES ASSUME SmiInit PROVE AccessInv
  OBVIOUS
<1>1. NoCall \in CallType
  BY DEF NoCall, CallType
<1>2. 0 \in 0 .. PollMax + 2
  BY SmiAssumption
<1>3. SmiTypeOK
  BY <1>1, <1>2 DEF SmiInit, SmiTypeOK
<1> QED
  BY <1>3 DEF SmiInit, AccessInv, CommandWhenIdle

LEMMA CommandKeeps ==
    ASSUME AccessInv, NEW c \in Commands, Command(c)
    PROVE  AccessInv'
<1>1. SmiTypeOK'
  BY CommandsAreCalls DEF Command, Called, AccessInv, SmiTypeOK
<1> QED
  BY <1>1 DEF Command, Called, AccessInv, CommandWhenIdle

LEMMA EnterKeeps ==
    ASSUME AccessInv, NEW c \in Commands, Begin(c)
    PROVE  AccessInv'
<1>1. SmiTypeOK'
  BY CommandsAreCalls DEF Begin, Called, AccessInv, SmiTypeOK, hw
<1> QED
  BY <1>1 DEF Begin, Called, AccessInv, CommandWhenIdle, hw

LEMMA ExecuteKeeps ==
    ASSUME AccessInv, Execute
    PROVE  AccessInv'
<1>1. cmd.reg \in Regs /\ cmd \in Commands
  BY Functions DEF AccessInv, Execute
<1>2. phy' \in [Regs -> Values] /\ data' \in Values
  BY <1>1 DEF Execute, AccessInv, SmiTypeOK
<1>3. settled' \in Values
  BY <1>1, <1>2 DEF Execute
<1>4. SmiTypeOK'
  BY <1>2, <1>3 DEF Execute, AccessInv, SmiTypeOK
<1>5. cmd.fn \in Readers => data' = settled'
  BY DEF Execute
<1> QED
  BY <1>4, <1>5 DEF Execute, AccessInv, CommandWhenIdle

LEMMA ChangesKeep ==
    ASSUME AccessInv, PhyChanges
    PROVE  AccessInv'
<1>1. SmiTypeOK'
  BY DEF PhyChanges, AccessInv, SmiTypeOK
<1> QED
  BY <1>1 DEF PhyChanges, AccessInv, CommandWhenIdle

LEMMA PollKeeps ==
    ASSUME AccessInv, Poll
    PROVE  AccessInv'
<1>1. polls \in Nat /\ polls <= PollMax + 2 /\ PollMax \in Nat
  BY SmiAssumption DEF AccessInv, SmiTypeOK
<1>2. polls' \in 0 .. PollMax + 2 /\ ret' \in {"ok", "error"} /\ pc' \in {"idle", "poll", "data"}
  BY <1>1 DEF Poll, PollRead, PollWrite, PollBsp, PollPPUEn, Look, Finish, AccessInv, SmiTypeOK
<1>3. SmiTypeOK'
  BY <1>2 DEF Poll, AccessInv, SmiTypeOK, hw
<1>4. pc' = "data" => busy = FALSE
  BY DEF Poll, PollRead, PollWrite, PollBsp, PollPPUEn, Look, Finish, AccessInv, SmiTypeOK
<1>5. CommandWhenIdle'
  BY DEF Poll, PollRead, PollWrite, PollBsp, PollPPUEn, Look, Finish, CommandWhenIdle, hw, PPUEn
<1> QED
  BY <1>2, <1>3, <1>4, <1>5 DEF Poll, AccessInv, hw

LEMMA WaitKeeps ==
    ASSUME AccessInv, Wait
    PROVE  AccessInv'
<1>1. polls \in Nat /\ polls <= PollMax + 2 /\ PollMax \in Nat
  BY SmiAssumption DEF AccessInv, SmiTypeOK
<1>2. polls' \in 0 .. PollMax + 2 /\ ret' \in {"ok", "error"} /\ pc' \in {"idle", "wait", "give"}
  BY <1>1 DEF Wait, Look, Finish, AccessInv, SmiTypeOK
<1>3. SmiTypeOK'
  BY <1>2 DEF Wait, AccessInv, SmiTypeOK, hw
<1>4. pc' = "give" => busy = FALSE
  BY DEF Wait, Look, Finish, AccessInv, SmiTypeOK
<1>5. call.fn \in PPUEn
  BY DEF AccessInv, Wait
<1> QED
  BY <1>2, <1>3, <1>4, <1>5 DEF Wait, AccessInv, hw, CommandWhenIdle

LEMMA GiveKeeps ==
    ASSUME AccessInv, Give
    PROVE  AccessInv'
<1>1. call \in Commands /\ call.fn \in PPUEn
  BY DEF AccessInv, Give
<1>2. call.fn # "phyRegReadPPUEn" => call.val \in Values
  BY <1>1, Functions DEF PPUEn, Readers, Writers
<1>3. data' \in Values /\ polls' \in 0 .. PollMax + 2 /\ ret' \in {"ok", "error"} /\ pc' \in {"idle", "poll"}
  BY <1>2, SmiAssumption DEF Give, Finish, AccessInv, SmiTypeOK
<1>4. SmiTypeOK'
  BY <1>1, <1>3, CommandsAreCalls DEF Give, AccessInv, SmiTypeOK
<1> QED
  BY <1>1, <1>3, <1>4 DEF Give, AccessInv, CommandWhenIdle

LEMMA DataKeeps ==
    ASSUME AccessInv, Data
    PROVE  AccessInv'
<1>1. call \in Commands /\ busy = FALSE
  BY DEF AccessInv, Data
<1>2. call.fn \notin Readers => call.val \in Values
  BY <1>1, Functions
<1>3. data' \in Values /\ value' \in Values \cup {None} /\ polls' \in 0 .. PollMax + 2
  BY <1>2, SmiAssumption DEF Data, Finish, AccessInv, SmiTypeOK
<1>4. SmiTypeOK'
  BY <1>3 DEF Data, Finish, AccessInv, SmiTypeOK
<1> QED
  BY <1>1, <1>4 DEF Data, Finish, AccessInv, CommandWhenIdle
-----------------------------------------------------------------------------
LEMMA ReadsAreCommands ==
    ASSUME NEW f \in Readers, NEW r \in Regs
    PROVE  [fn |-> f, reg |-> r, val |-> None] \in Commands
  BY DEF Commands

LEMMA WritesAreCommands ==
    ASSUME NEW f \in Writers, NEW r \in Regs, NEW v \in Values
    PROVE  [fn |-> f, reg |-> r, val |-> v] \in Commands
  BY DEF Commands

LEMMA CallsKeep ==
    ASSUME AccessInv, Calls
    PROVE  AccessInv'
<1>1. ASSUME NEW r \in Regs, Read(r) PROVE AccessInv'
  <2>1. PICK f \in Readers : Access([fn |-> f, reg |-> r, val |-> None])
    BY <1>1 DEF Read
  <2> QED
    BY <2>1, ReadsAreCommands, CommandKeeps, EnterKeeps DEF Access
<1>2. ASSUME NEW r \in Regs, NEW v \in Values, Write(r, v) PROVE AccessInv'
  <2>1. PICK f \in Writers : Access([fn |-> f, reg |-> r, val |-> v])
    BY <1>2 DEF Write
  <2> QED
    BY <2>1, WritesAreCommands, CommandKeeps, EnterKeeps DEF Access
<1> QED
  BY <1>1, <1>2 DEF Calls

LEMMA ProceedKeeps ==
    ASSUME AccessInv, Proceed
    PROVE  AccessInv'
  BY PollKeeps, WaitKeeps, GiveKeeps, DataKeeps DEF Proceed

LEMMA StutterKeeps ==
    ASSUME AccessInv, UNCHANGED smivars
    PROVE  AccessInv'
  BY DEF AccessInv, SmiTypeOK, CommandWhenIdle, smivars, hw

LEMMA AccessStep ==
    ASSUME AccessInv, [SmiNext]_smivars
    PROVE  AccessInv'
  BY CallsKeep, ProceedKeeps, ExecuteKeeps, ChangesKeep, StutterKeeps DEF SmiNext

(* The variables of an access keep their types, for every bound of the polls. *)
THEOREM AccessTypes == SmiSpec => []SmiTypeOK
<1>1. AccessInv => SmiTypeOK
  BY DEF AccessInv
<1> QED
  BY <1>1, InitAccess, AccessStep, PTL DEF SmiSpec

(* Of the six functions only the driver's two and one that ran into its timeout *)
(* leave the switch busy.                                                       *)
THEOREM IdleBetweenCalls == SmiSpec => []CommandWhenIdle
<1>1. AccessInv => CommandWhenIdle
  BY DEF AccessInv
<1> QED
  BY <1>1, InitAccess, AccessStep, PTL DEF SmiSpec

(* A read returns what the switch read for it. *)
THEOREM FreshRead == SmiSpec => ReadIsFresh
<1>1. AccessInv /\ [SmiNext]_smivars => [Data /\ call.fn \in Readers => value' = settled /\ cmd = call]_smivars
  BY DEF AccessInv, Data
<1> QED
  BY <1>1, InitAccess, AccessStep, PTL DEF SmiSpec, ReadIsFresh
-----------------------------------------------------------------------------
(* In the order of the program. *)

Idle == pc = "idle" /\ busy = FALSE

LEMMA ScanStages ==
    /\ DOMAIN Scans = {"scan8", "scan9", "scan0", "scan1"}
    /\ Scanning = {"scanning8", "scanning9", "scanning0", "scanning1"}
    /\ \A s \in DOMAIN Scans : Scans[s] \in Scanning
  BY DEF Scans, Scanning

(* Where the start-up is, which call that makes, and when the switch is idle. *)
OrderInv ==
    /\ stage \in Stages
    /\ stage \in {"reset", "link", "negotiate", "complete", "done"} \cup DOMAIN Scans => Idle
    /\ stage \in {"resetting", "negotiating"} =>
          /\ call.fn = "Write_PHY_SMI" /\ pc \in {"idle", "poll", "data"}
          /\ pc = "idle" => busy = FALSE
    /\ stage \in Scanning =>
          /\ call.fn = "gtBspReadMii" /\ pc \in {"idle", "poll", "data"}
          /\ pc = "idle" /\ ret = "ok" => busy = FALSE
    /\ stage = "stopped" => pc = "idle"

(* What the driver's write finds in the data register. *)
DataInv == busy /\ cmd.fn = "phyRegWritePPUEn" => data = cmd.val

StartInv == AccessInv /\ OrderInv /\ DataInv

LEMMA InitStart == StartInit => StartInv
  BY InitAccess, ScanStages DEF StartInit, StartInv, OrderInv, DataInv, Stages, Idle, SmiInit

LEMMA AskKeeps ==
    ASSUME StartInv, Ask
    PROVE  StartInv' /\ busy = FALSE
<1> DEFINE c(v) == [fn |-> "Write_PHY_SMI", reg |-> BCR, val |-> v]
<1>1. PICK v \in {Reset, AutoNego} :
         Command(c(v)) /\ Idle /\ stage' \in {"resetting", "negotiating"}
  BY DEF Ask, Write_PHY_SMI, To, StartInv, OrderInv
<1>2. c(v) \in Commands
  BY StartAssumption DEF Commands, Writers
<1>3. AccessInv'
  BY <1>1, <1>2, CommandKeeps DEF StartInv
<1>4. c(v).fn = "Write_PHY_SMI" /\ c(v).val = v
  OBVIOUS
<1>5. call' = c(v) /\ cmd' = c(v) /\ pc' = "poll"
  BY <1>1 DEF Command, Called
<1> HIDE DEF c
<1>6. OrderInv'
  BY <1>1, <1>4, <1>5, ScanStages DEF OrderInv, Stages
<1>7. DataInv'
  BY <1>4, <1>5 DEF DataInv
<1> QED
  BY <1>1, <1>3, <1>6, <1>7 DEF StartInv, Idle

LEMMA ScanKeeps ==
    ASSUME StartInv, Scan
    PROVE  StartInv' /\ busy = FALSE
<1> DEFINE c(r) == [fn |-> "gtBspReadMii", reg |-> r, val |-> None]
<1>1. PICK r \in Regs : Command(c(r))
  BY DEF Scan
<1>2. Idle /\ stage' \in Scanning
  BY ScanStages DEF Scan, To, StartInv, OrderInv
<1>3. c(r) \in Commands
  BY DEF Commands, Readers
<1>4. AccessInv'
  BY <1>1, <1>3, CommandKeeps DEF StartInv
<1>5. c(r).fn = "gtBspReadMii"
  OBVIOUS
<1>6. call' = c(r) /\ cmd' = c(r) /\ pc' = "poll"
  BY <1>1 DEF Command, Called
<1> HIDE DEF c
<1>7. OrderInv' /\ DataInv'
  BY <1>2, <1>5, <1>6, ScanStages DEF OrderInv, DataInv, Stages
<1> QED
  BY <1>2, <1>4, <1>7 DEF StartInv, Idle

LEMMA WaitsKeep ==
    ASSUME StartInv, Asked \/ Await("link", "negotiate") \/ Await("complete", "done") \/ Done \/ Scanned
    PROVE  StartInv' /\ UNCHANGED smivars
<1>1. UNCHANGED smivars
  BY DEF Asked, Await, Done, Scanned
<1>2. AccessInv'
  BY <1>1, StutterKeeps DEF StartInv
<1>3. OrderInv'
  BY <1>1, ScanStages DEF StartInv, OrderInv, Stages, Idle, smivars, hw, Asked, Await, Done, Scanned, To, Fail, AccessInv, SmiTypeOK
<1>4. DataInv'
  BY <1>1 DEF StartInv, DataInv, smivars, hw
<1> QED
  BY <1>1, <1>2, <1>3, <1>4 DEF StartInv

LEMMA DriverKeeps ==
    ASSUME StartInv, Driver
    PROVE  StartInv'
<1>1. PICK c \in Commands : Begin(c)
  <2>1. \A r \in Regs : [fn |-> "phyRegReadPPUEn", reg |-> r, val |-> None] \in Commands
    BY ReadsAreCommands DEF Readers
  <2>2. \A r \in Regs, v \in Values : [fn |-> "phyRegWritePPUEn", reg |-> r, val |-> v] \in Commands
    BY WritesAreCommands DEF Writers
  <2> QED
    BY <2>1, <2>2 DEF Driver
<1>2. stage = "driver" /\ UNCHANGED start
  BY DEF Driver
<1>3. AccessInv'
  BY <1>1, EnterKeeps DEF StartInv
<1>4. OrderInv' /\ DataInv'
  BY <1>1, <1>2, ScanStages DEF Begin, Called, StartInv, OrderInv, DataInv, start, hw, Stages
<1> QED
  BY <1>3, <1>4 DEF StartInv

LEMMA ExecuteInOrder ==
    ASSUME StartInv, Execute, UNCHANGED start
    PROVE  StartInv'
<1>1. AccessInv'
  BY ExecuteKeeps DEF StartInv
<1>2. OrderInv'
  BY DEF Execute, StartInv, OrderInv, start, Idle, Stages
<1>3. data' = data \/ cmd.fn \in Readers
  BY DEF Execute
<1>4. DataInv'
  BY <1>3 DEF Execute, StartInv, OrderInv, DataInv, AccessInv, start, Idle, Readers
<1> QED
  BY <1>1, <1>2, <1>4 DEF StartInv

LEMMA ChangesInOrder ==
    ASSUME StartInv, PhyChanges, UNCHANGED start
    PROVE  StartInv'
<1>1. AccessInv'
  BY ChangesKeep DEF StartInv
<1> QED
  BY <1>1 DEF PhyChanges, StartInv, OrderInv, DataInv, start, Idle, Stages

LEMMA PollInOrder ==
    ASSUME StartInv, Poll \/ Wait, UNCHANGED start
    PROVE  StartInv'
<1>1. AccessInv'
  BY PollKeeps, WaitKeeps DEF StartInv
<1>2. UNCHANGED <<busy, cmd, data, call>> /\ pc \in {"poll", "wait"} /\ (pc = "wait" => call.fn \in PPUEn)
  BY DEF Poll, Wait, hw, StartInv, AccessInv
<1>3. /\ pc = "poll" => pc' \in {"idle", "poll", "data"}
      /\ pc' = "idle" /\ pc = "poll" /\ call.fn = "Write_PHY_SMI" => busy = FALSE /\ ret' = "error"
      /\ pc' = "idle" /\ pc = "poll" /\ call.fn = "gtBspReadMii" => ret' = "error"
  BY <1>2 DEF Poll, Wait, PollRead, PollWrite, PollBsp, PollPPUEn, Look, Finish, StartInv, AccessInv, SmiTypeOK
<1>4. OrderInv'
  BY <1>2, <1>3 DEF StartInv, OrderInv, start, Idle, Stages
<1>5. DataInv'
  BY <1>2, <1>3 DEF StartInv, OrderInv, DataInv, start, Idle
<1> QED
  BY <1>1, <1>4, <1>5 DEF StartInv

LEMMA GiveInOrder ==
    ASSUME StartInv, Give, UNCHANGED start
    PROVE  StartInv'
<1>1. AccessInv'
  BY GiveKeeps DEF StartInv
<1>2. stage = "driver" /\ call.fn \in PPUEn
  BY DEF Give, StartInv, OrderInv, AccessInv, Idle, PPUEn, Stages
<1>3. OrderInv'
  BY <1>2, ScanStages DEF OrderInv, start, Stages
<1>4. DataInv'
  BY <1>2 DEF Give, DataInv, start, PPUEn
<1> QED
  BY <1>1, <1>3, <1>4 DEF StartInv

LEMMA DataInOrder ==
    ASSUME StartInv, Data, UNCHANGED start
    PROVE  StartInv'
<1>1. AccessInv'
  BY DataKeeps DEF StartInv
<1>2. busy = FALSE /\ busy' = FALSE /\ call' = call /\ pc = "data" /\ pc' = "idle"
  BY DEF Data, Finish, StartInv, AccessInv
<1>3. OrderInv'
  BY <1>2 DEF StartInv, OrderInv, start, Idle, Stages
<1>4. call.fn = "Write_PHY_SMI" => data' = call.val
  BY DEF Data, Readers
<1>5. DataInv'
  BY <1>2, <1>4 DEF StartInv, OrderInv, DataInv, start, Idle
<1> QED
  BY <1>1, <1>3, <1>5 DEF StartInv

LEMMA StartStep ==
    ASSUME StartInv, [StartNext]_startvars
    PROVE  StartInv'
<1>1. CASE ETH_Init \/ Scan \/ Scanned
  BY <1>1, AskKeeps, ScanKeeps, WaitsKeep DEF ETH_Init
<1>2. CASE Driver
  BY <1>2, DriverKeeps
<1>3. CASE Accessing
  BY <1>3, ExecuteInOrder, ChangesInOrder, PollInOrder, GiveInOrder, DataInOrder DEF Accessing, Proceed
<1>4. CASE UNCHANGED startvars
  <2>1. UNCHANGED smivars /\ UNCHANGED start
    BY <1>4 DEF startvars
  <2>2. AccessInv'
    BY <2>1, StutterKeeps DEF StartInv
  <2> QED
    BY <2>1, <2>2 DEF StartInv, OrderInv, DataInv, smivars, hw, start, Idle, Stages
<1> QED
  BY <1>1, <1>2, <1>3, <1>4 DEF StartNext

(* In the order of the program no command falls into one that is being executed. *)
THEOREM CommandsApart == StartSpec => NeverOverrun
<1>1. ASSUME StartInv, [StartNext]_startvars, NEW c \in CallType, Command(c)
      PROVE  busy = FALSE
  <2>1. pc = "idle" /\ pc' = "poll"
    BY <1>1 DEF Command, Called
  <2>2. CASE Ask \/ Scan
    BY <1>1, <2>2, AskKeeps, ScanKeeps
  <2>3. CASE Asked \/ Await("link", "negotiate") \/ Await("complete", "done") \/ Done \/ Scanned
    BY <1>1, <2>1, <2>3, WaitsKeep DEF smivars
  <2>4. CASE Driver
    BY <2>1, <2>4 DEF Driver, Begin
  <2>5. CASE Accessing
    BY <2>1, <2>5 DEF Accessing, Proceed, Poll, Wait, Give, Data, Execute, PhyChanges
  <2>6. CASE UNCHANGED startvars
    BY <2>1, <2>6 DEF startvars, smivars
  <2> QED
    BY <1>1, <2>2, <2>3, <2>4, <2>5, <2>6 DEF StartNext, ETH_Init
<1>2. StartInv /\ [StartNext]_startvars
      => [(\E c \in CallType : Command(c)) \/ Give => ~busy]_startvars
  BY <1>1 DEF StartInv, AccessInv, Give
<1> QED
  BY <1>2, InitStart, StartStep, PTL DEF StartSpec, NeverOverrun

(* The driver's write puts its value into the PHY, for whatever was to be read or *)
(* written before it.                                                             *)
THEOREM WrittenValues == StartSpec => DriverWritesArrive
<1>1. ASSUME StartInv, Execute, cmd.fn = "phyRegWritePPUEn"
      PROVE  phy'[cmd.reg] = cmd.val
  <2>1. cmd.reg \in Regs
    BY <1>1, Functions DEF StartInv, AccessInv, Execute
  <2>2. phy'[cmd.reg] = data
    BY <1>1, <2>1 DEF Execute, StartInv, AccessInv, SmiTypeOK, Readers
  <2> QED
    BY <1>1, <2>2 DEF StartInv, DataInv, Execute
<1>2. StartInv /\ [StartNext]_startvars
      => [Execute /\ cmd.fn = "phyRegWritePPUEn" => phy'[cmd.reg] = cmd.val]_startvars
  BY <1>1
<1> QED
  BY <1>2, InitStart, StartStep, PTL DEF StartSpec, DriverWritesArrive
-----------------------------------------------------------------------------
(* The serial line. *)

(* The word is a count below the size of the buffer with no flag, with bit 14, *)
(* or with both flags.                                                         *)
SerialWord == \E c \in 0 .. USART_REC_LEN - 1 :
            USART_RX_STA \in {c, c + Bit14, c + Bit14 + Bit15}

SerialInv == UsartTypeOK /\ SerialWord

(* The size of the buffer is within the count's 14 bits. *)
LEMMA BufferSize == USART_REC_LEN \in Nat /\ 1 <= USART_REC_LEN /\ USART_REC_LEN <= 16384
BY UsartAssumption, SMT DEF Bit14

(* How the three fields of such a word are read. *)
LEMMA Fields ==
    ASSUME NEW c \in 0 .. USART_REC_LEN - 1
    PROVE  /\ ~GotLine(c) /\ ~GotCR(c) /\ Count(c) = c
           /\ ~GotLine(c + Bit14) /\ GotCR(c + Bit14) /\ Count(c + Bit14) = c
           /\ GotLine(c + Bit14 + Bit15) /\ GotCR(c + Bit14 + Bit15)
           /\ Count(c + Bit14 + Bit15) = c
BY BufferSize, SMT DEF GotLine, GotCR, Count, Bit14, Bit15

(* Such a word has 16 bits. *)
LEMMA WordType == ASSUME NEW c \in 0 .. USART_REC_LEN - 1
                  PROVE  {c, c + Bit14, c + Bit14 + Bit15} \subseteq 0 .. Word - 1
<1>1. c \in Int /\ 0 <= c /\ c <= 16383
  BY BufferSize
<1>2. Word \in Int /\ c <= Word - 1 /\ c + Bit14 <= Word - 1 /\ c + Bit14 + Bit15 <= Word - 1
  BY <1>1, SMT DEF Word, Bit14, Bit15
<1>3. Bit14 \in Nat /\ Bit15 \in Nat
  BY DEF Bit14, Bit15
<1> QED BY <1>1, <1>2, <1>3

(* The history is a sequence of bytes. *)
LEMMA RememberType == ASSUME NEW b \in Bytes, recent \in Seq(Bytes), Remember(b)
                      PROVE  recent' \in Seq(Bytes)
<1>1. Append(recent, b) \in Seq(Bytes) /\ Len(Append(recent, b)) > 0
  BY SMT
<1>2. Append(recent, b) # <<>>
  BY <1>1
<1>3. Tail(Append(recent, b)) \in Seq(Bytes)
  BY <1>1, <1>2
<1> QED BY <1>1, <1>3 DEF Remember

(* A count of zero is in range. *)
LEMMA ZeroCount == 0 \in 0 .. USART_REC_LEN - 1
BY BufferSize

(* Initially the word is zero. *)
LEMMA SerialInit == UsartInit => SerialInv
<1>1. 0 \in 0 .. USART_REC_LEN - 1
  BY ZeroCount
<1>2. 0 \in 0 .. Word - 1
  BY <1>1, WordType
<1>3. <<>> \in Seq(Bytes)
  OBVIOUS
<1> QED BY <1>1, <1>2, <1>3 DEF UsartInit, SerialInv, UsartTypeOK, SerialWord

(* One byte keeps the word in its form. *)
LEMMA ByteStep ==
    ASSUME SerialInv, NEW b \in Bytes, USART3_IRQHandler(b)
    PROVE  SerialInv'
<1>1. UsartTypeOK
  BY DEF SerialInv
<1>2. PICK c \in 0 .. USART_REC_LEN - 1 :
         USART_RX_STA \in {c, c + Bit14, c + Bit14 + Bit15}
  BY DEF SerialInv, SerialWord
<1>3. CASE GotLine(USART_RX_STA)
  BY <1>3 DEF USART3_IRQHandler, SerialInv, UsartTypeOK, SerialWord, usartvars
<1>4. CASE ~GotLine(USART_RX_STA)
  <2>1. USART_RX_STA \in {c, c + Bit14}
    BY <1>2, <1>4, Fields
  <2>2. recent' \in Seq(Bytes)
    BY <1>1, <1>4, RememberType DEF USART3_IRQHandler, UsartTypeOK
  <2>3. CASE AfterCR(b)
    <3>1. USART_RX_STA = c + Bit14
      BY <2>1, <2>3, Fields DEF AfterCR
    <3>2. USART_RX_STA' \in {0, c + Bit14 + Bit15} /\ USART_RX_BUF' = USART_RX_BUF
      BY <2>3, <3>1 DEF AfterCR
    <3> QED BY <1>1, <2>2, <3>2, ZeroCount, WordType DEF SerialInv, UsartTypeOK, SerialWord
  <2>4. CASE CarriageReturn(b)
    <3>1. USART_RX_STA = c
      BY <2>1, <2>4, Fields DEF CarriageReturn
    <3>2. USART_RX_STA' = c + Bit14 /\ USART_RX_BUF' = USART_RX_BUF
      BY <2>4, <3>1 DEF CarriageReturn
    <3> QED BY <1>1, <2>2, <3>2, ZeroCount, WordType DEF SerialInv, UsartTypeOK, SerialWord
  <2>5. CASE Store(b)
    <3>1. USART_RX_STA = c
      BY <2>1, <2>5, Fields DEF Store
    <3>2. USART_RX_STA' \in 0 .. USART_REC_LEN - 1
      BY <2>5, <3>1, BufferSize DEF Store
    <3>3. USART_RX_BUF' \in [0 .. USART_REC_LEN - 1 -> Bytes \cup {NoByte}]
      BY <1>1, <2>5 DEF Store, UsartTypeOK
    <3> QED BY <1>1, <2>2, <3>2, <3>3, WordType DEF SerialInv, UsartTypeOK, SerialWord
  <2> QED BY <1>4, <2>3, <2>4, <2>5 DEF USART3_IRQHandler
<1> QED BY <1>3, <1>4

(* The word keeps its form for ever. *)
THEOREM SerialInvariance == UsartSpec => []SerialInv
<1>1. ASSUME SerialInv, [UsartNext]_usartvars PROVE SerialInv'
  <2>1. CASE UsartNext
    BY <1>1, <2>1, ByteStep DEF UsartNext
  <2>2. CASE UNCHANGED usartvars
    BY <1>1, <2>2 DEF SerialInv, UsartTypeOK, SerialWord, usartvars
  <2> QED BY <1>1, <2>1, <2>2
<1> QED BY SerialInit, <1>1, PTL DEF UsartSpec

(* The variables of the serial line keep their types. *)
THEOREM SerialTypes == UsartSpec => []UsartTypeOK
<1>1. SerialInv => UsartTypeOK
  BY DEF SerialInv
<1> QED BY SerialInvariance, <1>1, PTL

(* The count stays inside the buffer and out of the flags, for every size of   *)
(* buffer up to 2^14.                                                          *)
THEOREM CountAndFlags == UsartSpec => []FlagsApart
<1>1. SerialInv => FlagsApart
  <2>1. SUFFICES ASSUME SerialInv PROVE FlagsApart
    OBVIOUS
  <2>2. PICK c \in 0 .. USART_REC_LEN - 1 :
           USART_RX_STA \in {c, c + Bit14, c + Bit14 + Bit15}
    BY <2>1 DEF SerialInv, SerialWord
  <2>3. Count(USART_RX_STA) = c /\ (GotLine(USART_RX_STA) => GotCR(USART_RX_STA))
    BY <2>2, Fields
  <2> QED BY <2>2, <2>3, BufferSize DEF FlagsApart
<1> QED BY SerialInvariance, <1>1, PTL

(* The last n bytes received but for k more are the first n of the buffer. *)
Matches(n, k) ==
    /\ Len(recent) >= n + k
    /\ \A i \in 0 .. n - 1 : /\ USART_RX_BUF[i] = recent[Len(recent) - n - k + 1 + i]
                             /\ USART_RX_BUF[i] # CR

(* The line so far, without a flag, after CR, and complete. *)
LineInv ==
    \E c \in 0 .. USART_REC_LEN - 1 :
       \/ USART_RX_STA = c /\ Matches(c, 0)
       \/ /\ USART_RX_STA = c + Bit14 /\ Matches(c, 1)
          /\ recent[Len(recent)] = CR
       \/ /\ USART_RX_STA = c + Bit14 + Bit15 /\ Matches(c, 2)
          /\ recent[Len(recent) - 1] = CR /\ recent[Len(recent)] = LF

(* A byte is remembered as the last one; what came before moves up by one place, *)
(* and the history holds at least the longest line with its CR and LF.           *)
LEMMA RememberLast ==
    ASSUME NEW b \in Bytes, recent \in Seq(Bytes), Remember(b)
    PROVE  /\ Len(recent') \in Nat /\ Len(recent) \in Nat
           /\ Len(recent') >= 1 /\ recent'[Len(recent')] = b
           /\ Len(recent') = Len(recent) + 1 \/ Len(recent') >= USART_REC_LEN + 2
           /\ \A j \in Nat : j + 1 < Len(recent') =>
                  recent'[Len(recent') - (j + 1)] = recent[Len(recent) - j]
<1> DEFINE r == Append(recent, b)
<1>1. r \in Seq(Bytes) /\ Len(r) = Len(recent) + 1 /\ Len(recent) \in Nat
  OBVIOUS
<1>2. r[Len(r)] = b /\ \A i \in 1 .. Len(recent) : r[i] = recent[i]
  OBVIOUS
<1>3. r # <<>>
  BY <1>1
<1>4. Len(Tail(r)) = Len(r) - 1 /\ \A i \in 1 .. Len(r) - 1 : Tail(r)[i] = r[i + 1]
  BY <1>1, <1>3
<1> HIDE DEF r
<1>5. recent' = IF Len(r) > USART_REC_LEN + 2 THEN Tail(r) ELSE r
  BY DEF Remember, r
<1>6. CASE Len(r) > USART_REC_LEN + 2
  <2> DEFINE t == Tail(r)
  <2>1. recent' = t /\ Len(t) = Len(r) - 1 /\ Len(r) \in Nat /\ Len(r) >= USART_REC_LEN + 3
    BY <1>1, <1>5, <1>6, <1>4, BufferSize
  <2>2. \A i \in 1 .. Len(r) - 1 : t[i] = r[i + 1]
    BY <1>4
  <2> HIDE DEF t
  <2>3. Len(r) - 1 \in 1 .. Len(r) - 1 /\ t[Len(r) - 1] = r[Len(r) - 1 + 1]
    BY <2>1, <2>2, BufferSize
  <2>4. t[Len(t)] = b
    BY <1>2, <2>1, <2>3
  <2>5. ASSUME NEW j \in Nat, j + 1 < Len(t) PROVE t[Len(t) - (j + 1)] = recent[Len(recent) - j]
    <3>1. /\ Len(t) - (j + 1) \in 1 .. Len(r) - 1
          /\ Len(t) - (j + 1) + 1 = Len(recent) - j /\ Len(recent) - j \in 1 .. Len(recent)
      BY <1>1, <2>1, <2>5
    <3> QED BY <1>2, <2>2, <3>1
  <2>6. Len(t) \in Nat /\ Len(t) >= 1 /\ Len(t) >= USART_REC_LEN + 2
    BY <2>1, BufferSize
  <2> QED BY <1>1, <2>1, <2>4, <2>5, <2>6
<1>7. CASE ~(Len(r) > USART_REC_LEN + 2)
  BY <1>1, <1>2, <1>5, <1>7, BufferSize
<1> QED BY <1>6, <1>7

(* A byte received that is not stored leaves the match one byte further back. *)
LEMMA MatchesOn ==
    ASSUME NEW b \in Bytes, recent \in Seq(Bytes), Remember(b),
           NEW n \in 0 .. USART_REC_LEN - 1, NEW k \in 0 .. 1, Matches(n, k),
           UNCHANGED USART_RX_BUF
    PROVE  Matches(n, k + 1)'
<1>1. n \in Nat /\ k \in Nat /\ n + k + 1 <= USART_REC_LEN + 1
  BY BufferSize
<1>2. Len(recent') >= n + k + 1
  BY <1>1, RememberLast, BufferSize DEF Matches
<1>3. ASSUME NEW i \in 0 .. n - 1
      PROVE  recent'[Len(recent') - n - (k + 1) + 1 + i] = recent[Len(recent) - n - k + 1 + i]
  <2>1. n + k - 1 - i \in Nat /\ (n + k - 1 - i) + 1 < Len(recent')
    BY <1>1, <1>2, <1>3, RememberLast
  <2>2. recent'[Len(recent') - ((n + k - 1 - i) + 1)] = recent[Len(recent) - (n + k - 1 - i)]
    BY <2>1, RememberLast
  <2>3. /\ Len(recent') - n - (k + 1) + 1 + i = Len(recent') - ((n + k - 1 - i) + 1)
        /\ Len(recent) - n - k + 1 + i = Len(recent) - (n + k - 1 - i)
    BY <1>1, <1>3, RememberLast
  <2> QED BY <2>2, <2>3
<1>4. n + (k + 1) = n + k + 1 /\ USART_RX_BUF' = USART_RX_BUF
  BY <1>1
<1>5. \A i \in 0 .. n - 1 : /\ USART_RX_BUF[i] = recent[Len(recent) - n - k + 1 + i]
                           /\ USART_RX_BUF[i] # CR
  BY DEF Matches
<1>6. ASSUME NEW i \in 0 .. n - 1
      PROVE  /\ USART_RX_BUF'[i] = recent'[Len(recent') - n - (k + 1) + 1 + i]
             /\ USART_RX_BUF'[i] # CR
  BY <1>3, <1>4, <1>5, <1>6
<1> QED BY <1>2, <1>4, <1>6 DEF Matches

(* A byte that is stored extends the match. *)
LEMMA MatchesStored ==
    ASSUME NEW b \in Bytes, recent \in Seq(Bytes), Remember(b), b # CR, UsartTypeOK,
           NEW n \in 0 .. USART_REC_LEN - 2, Matches(n, 0),
           USART_RX_BUF' = [USART_RX_BUF EXCEPT ![n] = b]
    PROVE  Matches(n + 1, 0)'
<1>1. n \in Nat /\ n + 1 <= USART_REC_LEN - 1
  BY BufferSize
<1>2. Len(recent') >= n + 1
  <2>1. /\ Len(recent') \in Nat /\ Len(recent) \in Nat
        /\ Len(recent') = Len(recent) + 1 \/ Len(recent') >= USART_REC_LEN + 2
    BY RememberLast
  <2>2. Len(recent) >= n
    BY <1>1, <2>1 DEF Matches
  <2> QED BY <1>1, <2>1, <2>2, BufferSize
<1>3. USART_RX_BUF'[n] = b /\ \A i \in 0 .. n - 1 : USART_RX_BUF'[i] = USART_RX_BUF[i]
  BY <1>1, BufferSize DEF UsartTypeOK
<1>4. ASSUME NEW i \in 0 .. n - 1
      PROVE  recent'[Len(recent') - (n + 1) - 0 + 1 + i] = recent[Len(recent) - n - 0 + 1 + i]
  <2>1. n - 1 - i \in Nat /\ (n - 1 - i) + 1 < Len(recent')
    BY <1>1, <1>2, <1>4, RememberLast
  <2>2. recent'[Len(recent') - ((n - 1 - i) + 1)] = recent[Len(recent) - (n - 1 - i)]
    BY <2>1, RememberLast
  <2>3. /\ Len(recent') - (n + 1) - 0 + 1 + i = Len(recent') - ((n - 1 - i) + 1)
        /\ Len(recent) - n - 0 + 1 + i = Len(recent) - (n - 1 - i)
    BY <1>1, <1>4, RememberLast
  <2> QED BY <2>2, <2>3
<1>5. recent'[Len(recent') - (n + 1) - 0 + 1 + n] = b
  <2>1. Len(recent') - (n + 1) - 0 + 1 + n = Len(recent')
    BY <1>1, RememberLast
  <2> QED BY <2>1, RememberLast
<1>6. ASSUME NEW i \in 0 .. (n + 1) - 1
      PROVE  /\ USART_RX_BUF'[i] = recent'[Len(recent') - (n + 1) - 0 + 1 + i]
             /\ USART_RX_BUF'[i] # CR
  <2>1. CASE i = n
    BY <1>3, <1>5, <2>1
  <2>2. CASE i # n
    <3>1. i \in 0 .. n - 1
      BY <1>1, <1>6, <2>2
    <3> QED BY <1>3, <1>4, <3>1 DEF Matches
  <2> QED BY <2>1, <2>2
<1> QED BY <1>1, <1>2, <1>6 DEF Matches

(* An empty line matches whatever was received. *)
LEMMA MatchesNothing == ASSUME recent \in Seq(Bytes) PROVE Matches(0, 0)
<1>1. Len(recent) \in Nat
  OBVIOUS
<1> QED BY <1>1 DEF Matches

(* One byte keeps the line so far. *)
LEMMA LineStep ==
    ASSUME SerialInv, SerialInv', LineInv, NEW b \in Bytes, USART3_IRQHandler(b)
    PROVE  LineInv'
<1>1. UsartTypeOK /\ recent \in Seq(Bytes) /\ recent' \in Seq(Bytes)
  BY DEF SerialInv, UsartTypeOK
<1>2. PICK c \in 0 .. USART_REC_LEN - 1 :
         \/ USART_RX_STA = c /\ Matches(c, 0)
         \/ /\ USART_RX_STA = c + Bit14 /\ Matches(c, 1)
            /\ recent[Len(recent)] = CR
         \/ /\ USART_RX_STA = c + Bit14 + Bit15 /\ Matches(c, 2)
            /\ recent[Len(recent) - 1] = CR /\ recent[Len(recent)] = LF
  BY DEF LineInv
<1>3. CASE GotLine(USART_RX_STA)
  <2>1. UNCHANGED usartvars
    BY <1>3 DEF USART3_IRQHandler
  <2> QED BY <1>2, <2>1 DEF LineInv, Matches, usartvars
<1>4. CASE ~GotLine(USART_RX_STA)
  <2>1. Remember(b) /\ (AfterCR(b) \/ CarriageReturn(b) \/ Store(b))
    BY <1>4 DEF USART3_IRQHandler
  <2>2. Matches(0, 0)'
    <3>1. Len(recent') \in Nat
      BY <1>1
    <3> QED BY <3>1 DEF Matches
  <2>3. CASE AfterCR(b)
    <3>1. /\ USART_RX_STA = c + Bit14 /\ Matches(c, 1) /\ recent[Len(recent)] = CR
          /\ UNCHANGED USART_RX_BUF
      BY <1>2, <1>4, <2>3, Fields DEF AfterCR
    <3>2. CASE b = LF
      <4>1. USART_RX_STA' = c + Bit14 + Bit15
        BY <2>3, <3>1, <3>2 DEF AfterCR
      <4>2. Matches(c, 1 + 1)'
        BY <1>1, <2>1, <3>1, MatchesOn
      <4>3. recent'[Len(recent')] = LF
        BY <1>1, <2>1, <3>2, RememberLast
      <4>4. recent'[Len(recent') - 1] = CR
        <5>1. Len(recent') >= 2 /\ Len(recent) \in Nat
          BY <4>2, <1>1, RememberLast, <2>1 DEF Matches
        <5>2. recent'[Len(recent') - (0 + 1)] = recent[Len(recent) - 0]
          <6>1. 0 \in Nat /\ 0 + 1 < Len(recent')
            BY <5>1, <1>1
          <6> QED BY <1>1, <2>1, <6>1, RememberLast
        <5> QED BY <3>1, <5>1, <5>2, RememberLast, <1>1, <2>1
      <4> QED BY <4>1, <4>2, <4>3, <4>4 DEF LineInv
    <3>3. CASE b # LF
      BY <2>2, <2>3, <3>3, ZeroCount DEF AfterCR, LineInv
    <3> QED BY <3>2, <3>3
  <2>4. CASE CarriageReturn(b)
    <3>1. USART_RX_STA = c /\ Matches(c, 0) /\ UNCHANGED USART_RX_BUF
      BY <1>2, <1>4, <2>4, Fields DEF CarriageReturn
    <3>2. USART_RX_STA' = c + Bit14 /\ b = CR
      BY <2>4, <3>1 DEF CarriageReturn
    <3>3. Matches(c, 0 + 1)'
      BY <1>1, <2>1, <3>1, MatchesOn
    <3>4. recent'[Len(recent')] = CR
      BY <1>1, <2>1, <3>2, RememberLast
    <3> QED BY <3>2, <3>3, <3>4 DEF LineInv
  <2>5. CASE Store(b)
    <3>1. USART_RX_STA = c /\ Matches(c, 0)
      BY <1>2, <1>4, <2>5, Fields DEF Store
    <3>2. b # CR /\ USART_RX_BUF' = [USART_RX_BUF EXCEPT ![c] = b]
      BY <2>5, <3>1, Fields DEF Store
    <3>3. CASE c + 1 > USART_REC_LEN - 1
      <4>1. USART_RX_STA' = 0
        BY <2>5, <3>1, <3>3 DEF Store
      <4> QED BY <2>2, <4>1, ZeroCount DEF LineInv
    <3>4. CASE ~(c + 1 > USART_REC_LEN - 1)
      <4>1. USART_RX_STA' = c + 1
        BY <2>5, <3>1, <3>4 DEF Store
      <4>2. c \in 0 .. USART_REC_LEN - 2 /\ c + 1 \in 0 .. USART_REC_LEN - 1
        BY <3>4, BufferSize
      <4>3. Matches(c + 1, 0)'
        BY <1>1, <2>1, <3>1, <3>2, <4>2, MatchesStored
      <4> QED BY <4>1, <4>2, <4>3 DEF LineInv
    <3> QED BY <3>3, <3>4
  <2> QED BY <2>1, <2>3, <2>4, <2>5
<1> QED BY <1>3, <1>4

(* A complete line is exactly what was received last, CR and LF included, for   *)
(* every size of buffer up to 2^14 and every sequence of bytes.                 *)
THEOREM CompleteLine == UsartSpec => []LineExact
<1>1. UsartInit => LineInv
  <2>1. SUFFICES ASSUME UsartInit PROVE LineInv
    OBVIOUS
  <2>2. recent \in Seq(Bytes) /\ USART_RX_STA = 0
    BY <2>1 DEF UsartInit
  <2> QED BY <2>2, MatchesNothing, ZeroCount DEF LineInv
<1>2. ASSUME SerialInv, SerialInv', LineInv, [UsartNext]_usartvars PROVE LineInv'
  <2>1. CASE UsartNext
    BY <1>2, <2>1, LineStep DEF UsartNext
  <2>2. CASE UNCHANGED usartvars
    BY <1>2, <2>2 DEF LineInv, Matches, usartvars
  <2> QED BY <1>2, <2>1, <2>2
<1>3. SerialInv /\ LineInv => LineExact
  <2>1. SUFFICES ASSUME LineInv, GotLine(USART_RX_STA), recent \in Seq(Bytes)
                 PROVE  LineExact
    BY DEF LineExact, SerialInv, UsartTypeOK
  <2>2. PICK c \in 0 .. USART_REC_LEN - 1 :
           /\ USART_RX_STA = c + Bit14 + Bit15 /\ Matches(c, 2)
           /\ recent[Len(recent) - 1] = CR /\ recent[Len(recent)] = LF
    BY <2>1, Fields DEF LineInv
  <2>3. Count(USART_RX_STA) = c /\ Len(recent) \in Nat /\ c \in Nat
    BY <2>1, <2>2, Fields, BufferSize
  <2>4. ASSUME NEW i \in 0 .. c - 1
        PROVE  USART_RX_BUF[i] = recent[Len(recent) - c - 1 + i] /\ USART_RX_BUF[i] # CR
    <3>1. Len(recent) - c - 2 + 1 + i = Len(recent) - c - 1 + i
      BY <2>3, <2>4
    <3> QED BY <2>2, <3>1 DEF Matches
  <2> QED BY <2>2, <2>3, <2>4 DEF LineExact, Matches
<1> QED BY SerialInvariance, <1>1, <1>2, <1>3, PTL DEF UsartSpec
-----------------------------------------------------------------------------
(* The clock. *)

LEMMA LesserOfTwo ==
    ASSUME NEW a \in Nat, NEW b \in Nat
    PROVE  Min({a, b}) = IF a <= b THEN a ELSE b
<1>1. \E m \in {a, b} : m = (IF a <= b THEN a ELSE b) /\ \A y \in {a, b} : m <= y
  OBVIOUS
<1>2. \A m \in {a, b} : (\A y \in {a, b} : m <= y) => m = (IF a <= b THEN a ELSE b)
  OBVIOUS
<1>3. Min({a, b}) \in {a, b} /\ \A y \in {a, b} : Min({a, b}) <= y
  BY <1>1, Zenon DEF Min
<1> QED BY <1>2, <1>3, Zenon

(* A 32-bit difference is the difference, but for the wrap. *)
LEMMA Difference ==
    ASSUME NEW w \in Nat \ {0}, NEW a \in 0 .. w - 1, NEW b \in 0 .. w - 1
    PROVE  (a - b) % w = IF b <= a THEN a - b ELSE a - b + w
BY SMT

(* An addition below the modulus is the sum, but for the wrap. *)
LEMMA Addition ==
    ASSUME NEW w \in Nat \ {0}, NEW a \in 0 .. w - 1, NEW t \in 0 .. w - 1
    PROVE  (a + t) % w = IF a + t < w THEN a + t ELSE a + t - w
BY SMT

(* How the clock's distance from ARPTimer moves when it is advanced. *)
LEMMA Advanced ==
    ASSUME NEW w \in Nat \ {0}, NEW a \in 0 .. w - 1, NEW b \in 0 .. w - 1, NEW t \in 0 .. w - 1,
           NEW a1, a1 = (a + t) % w
    PROVE  a1 \in 0 .. w - 1 /\ (a1 - b) % w <= ((a - b) % w) + t
<1>1. a1 = IF a + t < w THEN a + t ELSE a + t - w
  BY Addition
<1>2. a1 \in 0 .. w - 1
  BY <1>1
<1>3. (a1 - b) % w = IF b <= a1 THEN a1 - b ELSE a1 - b + w
  BY <1>2, Difference
<1>4. (a - b) % w = IF b <= a THEN a - b ELSE a - b + w
  BY Difference
<1> QED BY <1>1, <1>2, <1>3, <1>4

(* What the counter will still be advanced by for the overflows so far. *)
Pending == IF isr = "add" \/ (isr = "idle" /\ uif) THEN Tick ELSE 0

(* Since ARPTimer was set the counter has advanced, and will advance for the       *)
(* overflows so far, by no more than the time that passed and the one tick that was *)
(* pending then; unless more time has passed than the history records.              *)
NotAhead == passed < LateMax => ((lwip_localtime - ARPTimer) % Wrap) + Pending <= passed + Tick

ClockInv == TimeTypeOK /\ NotAhead /\ NeverEarly

LEMMA ClockConstants ==
    /\ Tick \in Nat \ {0} /\ Interval \in Nat \ {0} /\ Wrap \in Nat \ {0} /\ LateMax \in Nat \ {0}
           /\ Tick <= Interval /\ Interval + Tick < Wrap /\ Interval <= LateMax
BY TimeAssumption

LEMMA ClockInit == ASSUME TimeInit PROVE ClockInv
<1>1. 0 \in 0 .. Wrap - 1 /\ (0 - 0) % Wrap = 0
  BY ClockConstants, Difference
<1>2. Pending = 0
  BY DEF TimeInit, Pending
<1>3. NotAhead
  BY <1>1, <1>2, ClockConstants DEF TimeInit, NotAhead
<1>4. 0 \in 0 .. LateMax
  BY ClockConstants
<1>5. TimeTypeOK
  BY <1>1, <1>4 DEF TimeInit, TimeTypeOK
<1>6. NeverEarly
  BY DEF TimeInit, NeverEarly
<1> QED BY <1>3, <1>5, <1>6 DEF ClockInv

LEMMA ClockStep == ASSUME ClockInv, [TimeNext]_timevars PROVE ClockInv'
<1> USE ClockConstants
<1>1. TimeTypeOK /\ NotAhead /\ NeverEarly
  BY DEF ClockInv
<1>2. PICK lag : lag = (lwip_localtime - ARPTimer) % Wrap
  OBVIOUS
<1>3. lag \in 0 .. Wrap - 1
  BY <1>1, <1>2, Difference DEF TimeTypeOK
<1>4. Pending \in {0, Tick}
  BY DEF Pending
<1>5. CASE Overflow
  <2>1. passed' = IF passed + Tick <= LateMax THEN passed + Tick ELSE LateMax
    <3>1. passed + Tick \in Nat
      BY <1>1 DEF TimeTypeOK
    <3> QED BY <1>5, <3>1, LesserOfTwo DEF Overflow
  <2>2. TimeTypeOK'
    BY <1>1, <1>5, <2>1 DEF TimeTypeOK, Overflow
  <2>3. Pending' \in {0, Tick}
    BY DEF Pending
  <2>4. passed \in 0 .. LateMax
    BY <1>1 DEF TimeTypeOK
  <2>5. NotAhead'
    <3>1. SUFFICES ASSUME passed' < LateMax PROVE lag + Pending' <= passed' + Tick
      BY <1>2, <1>5 DEF NotAhead, Overflow
    <3>2. passed' = passed + Tick /\ passed < LateMax
      BY <2>1, <2>4, <3>1
    <3>3. lag + Pending <= passed + Tick
      BY <1>1, <1>2, <3>2 DEF NotAhead
    <3>4. PICK m : m = Pending
      OBVIOUS
    <3>5. PICK n : n = Pending'
      OBVIOUS
    <3>6. m \in {0, Tick} /\ n \in {0, Tick} /\ lag + m <= passed + Tick
      BY <1>4, <2>3, <3>3, <3>4, <3>5
    <3>7. lag \in Int /\ passed \in Int /\ lag + n <= passed + Tick + Tick
      BY <1>3, <2>4, <3>6
    <3> QED BY <2>4, <3>2, <3>5, <3>7
  <2>6. NeverEarly'
    BY <1>1, <1>5, <2>1, <2>4 DEF NeverEarly, Overflow
  <2> QED BY <2>2, <2>5, <2>6 DEF ClockInv
<1>6. CASE EthEnter \/ EthLeave
  <2>1. UNCHANGED <<uif, isr, lwip_localtime, ARPTimer, main, passed>> /\ eth' \in BOOLEAN
    BY <1>6, Zenon DEF EthEnter, EthLeave
  <2> QED BY <1>1, <2>1 DEF ClockInv, TimeTypeOK, NotAhead, Pending, NeverEarly
<1>7. CASE Tim3Enter
  BY <1>1, <1>7 DEF Tim3Enter, ClockInv, TimeTypeOK, NotAhead, Pending, NeverEarly
<1>8. CASE Tim3Add
  <2>1. PICK now : now = (lwip_localtime + Tick) % Wrap
    OBVIOUS
  <2>2. lwip_localtime' = now
    BY <1>8, <2>1 DEF Tim3Add
  <2>3. now \in 0 .. Wrap - 1 /\ (now - ARPTimer) % Wrap <= lag + Tick
    <3>1. Tick \in 0 .. Wrap - 1 /\ lwip_localtime \in 0 .. Wrap - 1 /\ ARPTimer \in 0 .. Wrap - 1
      BY <1>1 DEF TimeTypeOK
    <3> QED BY <1>2, <2>1, <3>1, Advanced
  <2>4. Pending = Tick /\ Pending' = 0
    BY <1>8 DEF Tim3Add, Pending
  <2>5. TimeTypeOK' /\ NeverEarly'
    BY <1>1, <1>8, <2>2, <2>3 DEF TimeTypeOK, Tim3Add, NeverEarly
  <2>6. NotAhead'
    <3>1. SUFFICES ASSUME passed < LateMax PROVE ((now - ARPTimer) % Wrap) + 0 <= passed + Tick
      BY <1>8, <2>2, <2>4 DEF NotAhead, Tim3Add
    <3>2. lag + Tick <= passed + Tick
      BY <1>1, <1>2, <2>4, <3>1 DEF NotAhead
    <3>3. PICK new : new = (now - ARPTimer) % Wrap
      OBVIOUS
    <3>4. new \in 0 .. Wrap - 1
      BY <1>1, <2>3, <3>3, Difference DEF TimeTypeOK
    <3>5. passed \in Nat
      BY <1>1 DEF TimeTypeOK
    <3> QED BY <1>3, <2>3, <3>2, <3>3, <3>4, <3>5
  <2> QED BY <2>5, <2>6 DEF ClockInv
<1>9. CASE Tim3Clear
  <2>1. Pending = 0 /\ Pending' = 0
    BY <1>9 DEF Tim3Clear, Pending
  <2>2. NotAhead'
    BY <1>1, <1>9, <2>1 DEF NotAhead, Tim3Clear
  <2>3. TimeTypeOK' /\ NeverEarly'
    BY <1>1, <1>9 DEF Tim3Clear, TimeTypeOK, NeverEarly
  <2> QED BY <2>2, <2>3 DEF ClockInv
<1>10. CASE Check
  <2>1. TimeTypeOK'
    BY <1>1, <1>10 DEF Check, TimeTypeOK
  <2>2. NotAhead'
    BY <1>1, <1>10 DEF Check, NotAhead, Pending
  <2>3. passed' = passed /\ passed \in 0 .. LateMax
    BY <1>1, <1>10 DEF Check, TimeTypeOK
  <2>4. NeverEarly'
    <3>1. SUFFICES ASSUME main' = "set" PROVE passed + Tick >= Interval
      BY <2>3 DEF NeverEarly
    <3>2. lag >= Interval
      BY <1>2, <1>10, <3>1 DEF Check
    <3>3. CASE passed < LateMax
      <4>1. lag + Pending <= passed + Tick
        BY <1>1, <1>2, <3>3 DEF NotAhead
      <4> QED BY <1>3, <1>4, <2>3, <3>2, <4>1
    <3>4. CASE ~(passed < LateMax)
      BY <2>3, <3>4
    <3> QED BY <3>3, <3>4
  <2> QED BY <2>1, <2>2, <2>4 DEF ClockInv
<1>11. CASE SetTimer
  <2>1. TimeTypeOK' /\ NeverEarly'
    BY <1>1, <1>11 DEF SetTimer, TimeTypeOK, NeverEarly
  <2>2. (lwip_localtime - lwip_localtime) % Wrap = 0
    BY <1>1, Difference DEF TimeTypeOK
  <2>3. Pending' \in {0, Tick}
    BY DEF Pending
  <2>4. lwip_localtime' = lwip_localtime /\ ARPTimer' = lwip_localtime /\ passed' = 0
    BY <1>11 DEF SetTimer
  <2>5. NotAhead'
    BY <2>2, <2>3, <2>4 DEF NotAhead
  <2> QED BY <2>1, <2>5 DEF ClockInv
<1>12. CASE AgeArp
  BY <1>1, <1>12 DEF AgeArp, ClockInv, TimeTypeOK, NotAhead, Pending, NeverEarly
<1>13. CASE UNCHANGED timevars
  BY <1>1, <1>13 DEF timevars, ClockInv, TimeTypeOK, NotAhead, Pending, NeverEarly
<1> QED
  BY <1>5, <1>6, <1>7, <1>8, <1>9, <1>10, <1>11, <1>12, <1>13
  DEF TimeNext, Tim3, lwip_periodic_handle

(* The clock is never early: etharp_tmr is not called before its interval has     *)
(* passed but for one tick, for every interval and every counter that can hold it *)
(* and a tick, across the wrap of the counter and however many ticks are lost.    *)
THEOREM NotBeforeItsTime == TimeSpec => []NeverEarly
<1>1. ClockInv => NeverEarly
  BY DEF ClockInv
<1>2. TimeInit => ClockInv
  BY ClockInit
<1>3. ClockInv /\ [TimeNext]_timevars => ClockInv'
  BY ClockStep
<1> QED BY <1>1, <1>2, <1>3, PTL DEF TimeSpec
=============================================================================
