------------------------------ MODULE CcxProof ------------------------------
(***************************************************************************)
(* For every length of the configuration, size of the FIFOs and limit of   *)
(* the polls, whether or not the uDMA can read the flash, and whatever the *)
(* radio and the SHT1x driver's handler do: the results of ccx_t's         *)
(* operations are the radio's, and what they send reaches it.  Where the   *)
(* uDMA cannot read the flash, configure() writes nothing.                 *)
(***************************************************************************)
EXTENDS Ccx, TLAPS

-----------------------------------------------------------------------------
(* The invariant *)

At(o, places) == op = o /\ ip \in places

\* Where an operation sends a byte and waits for its answer, and where it hands a
\* buffer to the uDMA.
Sending ==
  At("reset", {5}) \/ At("part_number", {3, 4, 5}) \/ At("version", {2, 3}) \/ At("configure", {3})

Transferring == At("configure", {4})

\* Where it waits, selected, before it sends.
Beginning == At("reset", {4}) \/ At("part_number", {2}) \/ At("configure", {2})

\* The byte sent at these places.
Byte ==
  CASE op = "reset" -> SRES
    [] At("part_number", {3}) -> ReadExtended
    [] At("part_number", {4}) -> PARTNUMBER
    [] At("version", {2}) -> ReadVersion
    [] op = "configure" -> BurstWrite
    [] OTHER -> 0

Last(o) ==
  CASE o = "boot" -> 4 [] o = "reset" -> 8 [] o = "part_number" -> 7 [] o = "version" -> 4
    [] o = "configure" -> 5

Places ==
  /\ op \in {"boot", "reset", "part_number", "version", "configure", "none"}
  /\ op # "none" => ip \in 1..(Last(op) + 1)
  /\ ip \in 1..10
  /\ ok \in BOOLEAN
  /\ inputs \subseteq {"gdo0", "gdo1", "gdo2"}

\* The device is used where an operation does, and is empty elsewhere.
Using ==
  /\ pc[main] = "send" => Sending
  /\ pc[main] \in {"lock", "start", "wait"} => Transferring /\ count[main] = N
  /\ lock = IF pc[main] \in {"start", "wait"} THEN main ELSE NoTask
  /\ pc[main] # "wait" => chans = {} /\ ~ien
  /\ pc[main] \in {"idle", "lock", "start"} => txf = <<>> /\ rxf = <<>>

\* The byte of a send() has not been heard, or has.
Unheard == Sending /\ (pc[main] = "idle" \/ txf # <<>>)

Answered == pc[main] = "send" /\ txf = <<>>

Bytewise ==
  pc[main] = "send" =>
    \/ txf = <<Byte>> /\ rxf = <<>>
    \/ \E a \in {StatusByte, CHIP_CC1201} : txf = <<>> /\ rxf = <<a>>

\* The radio is selected where bytes are sent, and ready but for a reset.
Connected ==
  /\ selected \in BOOLEAN /\ ready \in BOOLEAN /\ heard \in BOOLEAN
  /\ Beginning \/ Sending \/ Transferring => selected
  /\ op \in {"part_number", "version", "configure"} => ready
  /\ op = "none" /\ ok => ready
  /\ op = "boot" => ip < 4 \/ "gdo1" \in inputs
  /\ op # "boot" => "gdo1" \in inputs

\* The polls of reset(), and what is known of the radio after each of them.
Resetting ==
  /\ polls \in 0..MaxPolls
  /\ polls # 0 => At("reset", {4, 7})
  /\ ok => polls < MaxPolls
  /\ op = "reset" /\ ok =>
       /\ Unheard => ready
       /\ Answered \/ ip > 5 => heard
       /\ ip > 7 => ready

\* What the radio takes the next byte for.
Listening ==
  /\ phase \in Phases
  /\ op # "configure" /\ Sending => phase # "burst"
  /\ Beginning => phase = "header"
  /\ Unheard /\ (op = "reset" \/ At("part_number", {3}) \/ op = "configure") => phase = "header"
  /\ At("part_number", {3}) /\ Answered => phase = "extended"
  /\ At("part_number", {4}) /\ Unheard => phase = "extended"
  /\ At("part_number", {4}) /\ Answered => phase = "partnumber"
  /\ At("part_number", {5}) /\ Unheard => phase = "partnumber"
  /\ At("part_number", {5}) /\ Answered => rxf = <<CHIP_CC1201>>
  /\ op = "configure" /\ (Answered \/ (Transferring /\ pc[main] # "wait")) =>
       phase = "burst" /\ pointer = 1

Results ==
  /\ value \in {StatusByte, CHIP_CC1201}
  /\ op = "part_number" /\ ip > 5 => value = CHIP_CC1201

Registers ==
  /\ pointer \in 1..(N + 1)
  /\ regs \in [1..N -> 0..N]
  /\ \A i \in 1..N : regs[i] \in {0, i}

\* The values of the configuration are in the radio, in the transmit FIFO and still
\* with the uDMA, in this order, and their answers in memory, in the receive FIFO and
\* to come; a transmit channel may have failed with values left.
Progress ==
  pc[main] = "wait" =>
    /\ phase = "burst"
    /\ Len(out) + Len(rxf) = pointer - 1
    /\ pointer - 1 + Len(txf) = N - left["tx"]
    /\ Len(out) = N - left["rx"]
    /\ left["rx"] > 0 <=> "rx" \in chans
    /\ "tx" \in chans => left["tx"] > 0
    /\ \A i \in 1..Len(txf) : txf[i] = pointer - 1 + i
    /\ \A i \in 1..N : i < pointer => regs[i] = i
    /\ ris = {}
    /\ sem = 1 \/ "rx" \in chis => left["rx"] = 0

CInv ==
  /\ ssi!TypeOK
  /\ Places
  /\ Using
  /\ Bytewise
  /\ Connected
  /\ Resetting
  /\ Listening
  /\ Results
  /\ Registers
  /\ Progress

-----------------------------------------------------------------------------
(* The programs *)

\* Two sequences of instructions, one after the other.
LEMMA Concatenation ==
  ASSUME NEW S, NEW s \in Seq(S), NEW t \in Seq(S)
  PROVE  /\ s \o t \in Seq(S)
         /\ Len(s \o t) = Len(s) + Len(t)
         /\ \A i \in 1..Len(s) : (s \o t)[i] = s[i]
         /\ \A i \in 1..Len(t) : (s \o t)[Len(s) + i] = t[i]
OBVIOUS

\* The three parts of a read.
LEMMA ReadProgram ==
  LET p == ext_reg_read(PARTNUMBER)
  IN /\ Len(p) = 7
     /\ p[1] = <<"select">> /\ p[2] = <<"await">>
     /\ p[3] = Send(ReadExtended) /\ p[4] = Send(PARTNUMBER) /\ p[5] = Keep(0)
     /\ p[6] = <<"wait_ready">> /\ p[7] = <<"release">>
<1> DEFINE a == << <<"select">>, <<"await">> >>
           b == << Send(ReadExtended), Send(PARTNUMBER), Keep(0) >>
           c == << <<"wait_ready">>, <<"release">> >>
           S == { <<"select">>, <<"await">>, Send(ReadExtended), Send(PARTNUMBER), Keep(0),
                  <<"wait_ready">>, <<"release">> }
<1>1. a \in Seq(S) /\ b \in Seq(S) /\ c \in Seq(S)
  OBVIOUS
<1>2. /\ Len(a) = 2 /\ a[1] = <<"select">> /\ a[2] = <<"await">>
      /\ Len(b) = 3 /\ b[1] = Send(ReadExtended) /\ b[2] = Send(PARTNUMBER) /\ b[3] = Keep(0)
      /\ Len(c) = 2 /\ c[1] = <<"wait_ready">> /\ c[2] = <<"release">>
  OBVIOUS
<1>3. ext_reg_read(PARTNUMBER) = a \o b \o c
  BY DEF ext_reg_read, start_transaction, finish_transaction
<1> HIDE DEF a, b, c, S
<1>4. /\ a \o b \in Seq(S) /\ Len(a \o b) = 5
      /\ (a \o b)[1] = a[1] /\ (a \o b)[2] = a[2]
      /\ (a \o b)[3] = b[1] /\ (a \o b)[4] = b[2] /\ (a \o b)[5] = b[3]
  <2>1. /\ a \o b \in Seq(S) /\ Len(a \o b) = Len(a) + Len(b)
        /\ \A i \in 1..Len(a) : (a \o b)[i] = a[i]
        /\ \A i \in 1..Len(b) : (a \o b)[Len(a) + i] = b[i]
    BY <1>1, Concatenation
  <2> QED
    BY <2>1, <1>2
<1>5. /\ Len(a \o b \o c) = 7
      /\ \A i \in 1..5 : (a \o b \o c)[i] = (a \o b)[i]
      /\ (a \o b \o c)[6] = c[1] /\ (a \o b \o c)[7] = c[2]
  <2>1. /\ Len((a \o b) \o c) = Len(a \o b) + Len(c)
        /\ \A i \in 1..Len(a \o b) : ((a \o b) \o c)[i] = (a \o b)[i]
        /\ \A i \in 1..Len(c) : ((a \o b) \o c)[Len(a \o b) + i] = c[i]
    <3> DEFINE ab == a \o b
    <3>1. ab \in Seq(S)
      BY <1>4
    <3> HIDE DEF ab
    <3>2. /\ Len(ab \o c) = Len(ab) + Len(c)
          /\ \A i \in 1..Len(ab) : (ab \o c)[i] = ab[i]
          /\ \A i \in 1..Len(c) : (ab \o c)[Len(ab) + i] = c[i]
      BY <1>1, <3>1, Concatenation
    <3> QED
      BY <3>2 DEF ab
  <2> QED
    BY <2>1, <1>2, <1>4
<1> QED
  BY <1>2, <1>3, <1>4, <1>5

\* The two parts of a configuration.
LEMMA ConfigureProgram ==
  /\ Len(configure) = 5
  /\ configure[1] = <<"select">> /\ configure[2] = <<"await">>
  /\ configure[3] = Send(BurstWrite) /\ configure[4] = <<"transceive", "flash">>
  /\ configure[5] = <<"release">>
<1> DEFINE a == << <<"select">>, <<"await">> >>
           b == << Send(BurstWrite), <<"transceive", "flash">>, <<"release">> >>
           S == { <<"select">>, <<"await">>, Send(BurstWrite), <<"transceive", "flash">>,
                  <<"release">> }
<1>1. a \in Seq(S) /\ b \in Seq(S)
  OBVIOUS
<1>2. /\ Len(a) = 2 /\ a[1] = <<"select">> /\ a[2] = <<"await">>
      /\ Len(b) = 3 /\ b[1] = Send(BurstWrite) /\ b[2] = <<"transceive", "flash">> /\ b[3] = <<"release">>
  OBVIOUS
<1>3. configure = a \o b
  BY DEF configure, start_transaction
<1> HIDE DEF a, b, S
<1>4. /\ Len(a \o b) = Len(a) + Len(b)
      /\ \A i \in 1..Len(a) : (a \o b)[i] = a[i]
      /\ \A i \in 1..Len(b) : (a \o b)[Len(a) + i] = b[i]
  BY <1>1, Concatenation
<1> QED
  BY <1>2, <1>3, <1>4

\* Which instructions are at which places.
LEMMA Instructions ==
  ASSUME Places
  PROVE  /\ op # "none" => Len(Program[op]) = Last(op)
         /\ AtInstruction("select") <=>
              At("reset", {1, 3}) \/ At("part_number", {1}) \/ At("version", {1})
              \/ At("configure", {1})
         /\ AtInstruction("release") <=>
              At("reset", {2, 8}) \/ At("part_number", {7}) \/ At("version", {4})
              \/ At("configure", {5})
         /\ AtInstruction("poll") <=> At("reset", {4, 7})
         /\ AtInstruction("await") <=> At("part_number", {2}) \/ At("configure", {2})
         /\ AtInstruction("wait_ready") <=> At("reset", {6}) \/ At("part_number", {6})
         /\ AtInstruction("send") \/ AtInstruction("keep") <=> Sending
         /\ Sending => Instruction[2] = Byte
         /\ Sending => (Instruction[1] = "keep" <=> At("part_number", {5}) \/ At("version", {3}))
         /\ AtInstruction("transceive") <=> Transferring
         /\ Transferring => Instruction[2] = "flash"
         /\ AtInstruction("input") <=> At("boot", {1, 2, 3})
         /\ AtInstruction("input") => Instruction[2] \in {"gdo0", "gdo1", "gdo2"}
         /\ At("boot", {3}) => Instruction[2] = "gdo1"
         /\ AtInstruction("ssi") <=> At("boot", {4})
<1> USE DEF Places, At, Last, AtInstruction, Instruction, Sending, Transferring, Byte, Send, Keep
<1>1. CASE op = "none"
  BY <1>1
<1>2. CASE op = "boot"
  <2>1. Program[op] = << <<"input", "gdo0">>, <<"input", "gdo2">>, <<"input", "gdo1">>, <<"ssi">> >>
    BY <1>2 DEF Program, boot
  <2> QED
    BY <1>2, <2>1
<1>3. CASE op = "reset"
  <2>1. Program[op] = reset
    BY <1>3 DEF Program
  <2> QED
    BY <1>3, <2>1 DEF reset
<1>4. CASE op = "part_number"
  <2>1. Program[op] = ext_reg_read(PARTNUMBER)
    BY <1>4 DEF Program
  <2> QED
    BY <1>4, <2>1, ReadProgram
<1>5. CASE op = "version"
  <2>1. Program[op] = version
    BY <1>5 DEF Program
  <2> QED
    BY <1>5, <2>1 DEF version
<1>6. CASE op = "configure"
  <2>1. Program[op] = configure
    BY <1>6 DEF Program
  <2> QED
    BY <1>6, <2>1, ConfigureProgram
<1> QED
  BY <1>1, <1>2, <1>3, <1>4, <1>5, <1>6 DEF Places

-----------------------------------------------------------------------------
(* Steps of the operation that leave the device alone *)


\* Off the places where the device is used it is idle, and stays so in such a step.
LEMMA DeviceRests ==
  ASSUME CInv, ~Sending, ~Transferring, UNCHANGED device
  PROVE  /\ pc[main] = "idle" /\ pc'[main] = "idle"
         /\ txf = <<>> /\ rxf = <<>> /\ txf' = <<>>
         /\ ssi!TypeOK' /\ Using' /\ Bytewise' /\ Progress'
         /\ ~Answered' /\ (Unheard' <=> Sending')
<1>1. pc[main] = "idle"
  BY DEF CInv, Using, ssi!TypeOK
<1>2. ssi!TypeOK'
  BY DEF CInv, device, ssi!TypeOK
<1> QED
  BY <1>1, <1>2 DEF CInv, device, Using, Bytewise, Progress, Answered, Unheard

\* Calls begin with a radio that was found ready, or with a reset,
LEMMA CallKeeps ==
  ASSUME CInv, NEW o \in Operations, Call(o)
  PROVE  CInv'
<1> USE DEF CInv, Call, At, radio
<1>1. o \in {"boot", "reset", "part_number", "version", "configure"} /\ op = "none"
  BY DEF Operations, Program
<1>2. ~Sending /\ ~Transferring
  BY <1>1 DEF Sending, Transferring
<1>3. /\ ssi!TypeOK' /\ Using' /\ Bytewise' /\ Progress'
      /\ ~Answered' /\ (Unheard' <=> Sending')
  BY <1>2, DeviceRests
<1>4. ~Sending' /\ ~Transferring'
  BY <1>1 DEF Sending, Transferring
<1>5. Places'
  BY <1>1 DEF Places, Last
<1>6. Connected'
  <2>1. selected' \in BOOLEAN /\ ready' \in BOOLEAN /\ heard' \in BOOLEAN
    BY Zenon DEF Connected
  <2>2. o = "reset" \/ ready'
    BY <1>1, Zenon DEF Connected
  <2>3. op' = o /\ o # "boot" /\ ip' = 1 /\ "gdo1" \in inputs'
    BY <1>1 DEF Connected
  <2> QED
    BY <1>4, <2>1, <2>2, <2>3 DEF Connected, Beginning
<1>7. Resetting'
  BY <1>1, <1>3, <1>4, CcxPolls DEF Resetting
<1>8. Listening'
  BY <1>1, <1>3, <1>4 DEF Listening, Beginning
<1>9. Results' /\ Registers'
  BY <1>1 DEF Results, Registers
<1> QED
  BY <1>3, <1>5, <1>6, <1>7, <1>8, <1>9

\* A call ends after its last instruction,
LEMMA EndPlace ==
  ASSUME CInv, EndCall
  PROVE  op \in {"boot", "reset", "part_number", "version", "configure"} /\ ip = Last(op) + 1
<1>1. Places /\ op # "none" /\ ip > Len(Program[op])
  BY DEF CInv, EndCall
<1>2. Len(Program[op]) = Last(op)
  BY <1>1, Instructions
<1> QED
  BY <1>1, <1>2 DEF Places, Last

\* and ends with a radio of which is known what its result says.
LEMMA EndCallKeeps ==
  ASSUME CInv, EndCall
  PROVE  CInv'
<1> USE DEF CInv, EndCall, At, radio
<1>1. op \in {"boot", "reset", "part_number", "version", "configure"} /\ ip = Last(op) + 1 /\ op' = "none"
  BY EndPlace
<1>10. ok' \in BOOLEAN /\ (ok' => ok /\ op # "boot")
  BY Zenon
<1>2. ~Sending /\ ~Transferring
  BY <1>1 DEF Sending, Transferring, Last
<1>3. /\ ssi!TypeOK' /\ Using' /\ Bytewise' /\ Progress'
      /\ ~Answered' /\ (Unheard' <=> Sending')
  BY <1>2, DeviceRests
<1>4. ~Sending' /\ ~Transferring'
  BY <1>1 DEF Sending, Transferring
<1>5. Places'
  BY <1>1, <1>10 DEF Places, Last
<1>6. Connected'
  BY <1>1, <1>4, <1>10 DEF Connected, Beginning, Resetting, Last
<1>7. Resetting'
  BY <1>1, <1>3, <1>4, <1>10, CcxPolls DEF Resetting, Last
<1>8. Listening'
  BY <1>1, <1>3, <1>4 DEF Listening, Beginning
<1>9. Results' /\ Registers'
  BY <1>1 DEF Results, Registers
<1> QED
  BY <1>3, <1>5, <1>6, <1>7, <1>8, <1>9

\* The pins are set up, and the polled one is not among those that the device's
\* constructor takes the mode from.
LEMMA BootKeeps ==
  ASSUME CInv, set_mode_input \/ ssi_dev
  PROVE  CInv'
<1> USE DEF CInv, Runs, At, radio
<1>1. /\ op = "boot" /\ ip \in 1..4 /\ op' = op /\ ip' = ip + 1
      /\ UNCHANGED <<device, polls, ok, value, ready, phase, pointer, regs, heard>>
  BY Instructions DEF set_mode_input, ssi_dev
<1>10. selected' \in BOOLEAN
  BY Zenon DEF set_mode_input, ssi_dev, Connected
<1>2. ~Sending /\ ~Transferring /\ ~Sending' /\ ~Transferring'
  BY <1>1 DEF Sending, Transferring
<1>3. /\ ssi!TypeOK' /\ Using' /\ Bytewise' /\ Progress'
      /\ ~Answered' /\ (Unheard' <=> Sending')
  BY <1>1, <1>2, DeviceRests
<1>4. inputs' \subseteq {"gdo0", "gdo1", "gdo2"} /\ (ip' < 4 \/ "gdo1" \in inputs')
  <2>1. CASE set_mode_input
    <3>1. /\ inputs' = inputs \cup {Instruction[2]}
          /\ Instruction[2] \in {"gdo0", "gdo1", "gdo2"}
          /\ At("boot", {3}) => Instruction[2] = "gdo1"
      BY <2>1, Instructions DEF set_mode_input
    <3>2. ip = 4 => "gdo1" \in inputs
      BY <1>1 DEF Connected
    <3>3. ip = 3 => "gdo1" \in inputs'
      BY <1>1, <3>1
    <3>4. inputs' \subseteq {"gdo0", "gdo1", "gdo2"}
      BY <3>1 DEF Places
    <3> QED
      BY <1>1, <3>1, <3>2, <3>3, <3>4
  <2>2. CASE ssi_dev
    BY <1>1, <2>2, Instructions DEF ssi_dev, PortA, Places, Connected
  <2> QED
    BY <2>1, <2>2
<1>5. Places'
  BY <1>1, <1>4 DEF Places, Last
<1>6. Connected'
  BY <1>1, <1>2, <1>4, <1>10 DEF Connected, Beginning
<1>7. Resetting'
  BY <1>1, <1>2, <1>3, CcxPolls DEF Resetting
<1>8. Listening'
  BY <1>1, <1>2, <1>3 DEF Listening, Beginning
<1>9. Results' /\ Registers'
  BY <1>1 DEF Results, Registers
<1> QED
  BY <1>3, <1>5, <1>6, <1>7, <1>8, <1>9

\* The radio begins anew with every change of its chip select.
LEMMA ChipSelectKeeps ==
  ASSUME CInv, ChipSelect
  PROVE  CInv'
<1> USE DEF CInv, Runs, At, radio, ChipSelect
<1>1. /\ op' = op /\ ip' = ip + 1
      /\ \/ op = "reset" /\ ip \in {1, 2, 3, 8}
         \/ op = "part_number" /\ ip \in {1, 7}
         \/ op = "version" /\ ip \in {1, 4}
         \/ op = "configure" /\ ip \in {1, 5}
      /\ ip < 4 /\ ~At("reset", {2}) => selected'
  BY Instructions
<1>10. selected' \in BOOLEAN
  BY Zenon
<1>2. ~Sending /\ ~Transferring /\ ~Transferring'
  BY <1>1 DEF Sending, Transferring
<1>3. /\ ssi!TypeOK' /\ Using' /\ Bytewise' /\ Progress' /\ ~Answered
      /\ ~Answered' /\ (Unheard' <=> Sending')
  BY <1>1, <1>2, DeviceRests DEF Answered
<1>4. Sending' <=> op = "version" /\ ip = 1
  BY <1>1 DEF Sending
<1>5. Places'
  BY <1>1 DEF Places, Last
<1>6. Connected'
  BY <1>1, <1>2, <1>4, <1>10 DEF Connected, Beginning
<1>7. Resetting'
  BY <1>1, <1>3, <1>4, CcxPolls DEF Resetting
<1>8. Listening'
  BY <1>1, <1>2, <1>3, <1>4 DEF Listening, Beginning, Phases
<1>9. Results' /\ Registers'
  BY <1>1, CcxConfiguration DEF Results, Registers
<1> QED
  BY <1>3, <1>5, <1>6, <1>7, <1>8, <1>9

\* A poll that ran out is a failure from then on.
LEMMA PollKeeps ==
  ASSUME CInv, PollAgain \/ PollEnd
  PROVE  CInv'
<1> USE DEF CInv, Runs, At, radio
<1>9. ok' \in BOOLEAN /\ (ok' => ok)
  <2>1. ok \in BOOLEAN
    BY DEF Places
  <2>2. CASE PollAgain
    BY <2>1, <2>2, Zenon DEF PollAgain
  <2>3. CASE PollEnd
    BY <2>1, <2>3, Zenon DEF PollEnd
  <2> QED
    BY <2>2, <2>3
<1>10. /\ ok' \in BOOLEAN /\ (ok' => ok)
       /\ AtInstruction("poll") /\ op' = op
       /\ UNCHANGED <<device, value, inputs, radio>>
  BY <1>9 DEF PollAgain, PollEnd
<1>11. \/ ip' = ip /\ polls' = polls + 1 /\ polls < MaxPolls /\ (ok' => polls + 1 < MaxPolls)
       \/ ip' = ip + 1 /\ polls' = 0 /\ (FALSE \in Gdo1IsSet \/ polls = MaxPolls)
  BY Zenon DEF PollAgain, PollEnd
<1>1. op = "reset" /\ ip \in {4, 7} /\ (ip' = ip \/ ip' = ip + 1)
  BY <1>10, <1>11, Instructions
<1>2. ~Sending /\ ~Transferring /\ ~Transferring'
  BY <1>1, <1>10 DEF Sending, Transferring
<1>3. /\ ssi!TypeOK' /\ Using' /\ Bytewise' /\ Progress' /\ ~Answered
      /\ ~Answered' /\ (Unheard' <=> Sending')
  BY <1>2, <1>10, DeviceRests DEF Answered
<1>4. Sending' <=> ip' = 5
  BY <1>1, <1>10 DEF Sending
<1>5. Places'
  BY <1>1, <1>10 DEF Places, Last
<1>6. Connected'
  BY <1>1, <1>2, <1>4, <1>10 DEF Connected, Beginning
<1>7. Resetting'
  <2>1. FALSE \in Gdo1IsSet => ready
    BY <1>1 DEF Gdo1IsSet, Connected
  <2>2. CASE ip' = ip /\ polls' = polls + 1 /\ polls < MaxPolls /\ (ok' => polls + 1 < MaxPolls)
    BY <1>1, <1>2, <1>3, <1>4, <1>10, <2>2, CcxPolls DEF Resetting, Places
  <2>3. CASE ip' = ip + 1 /\ polls' = 0 /\ (ready \/ polls = MaxPolls)
    <3>1. ok' => ready /\ (ip = 7 => heard)
      BY <1>1, <1>10, <2>3 DEF Resetting
    <3> QED
      BY <1>1, <1>2, <1>3, <1>4, <1>10, <2>3, <3>1, CcxPolls DEF Resetting, Places
  <2> QED
    BY <1>11, <2>1, <2>2, <2>3
<1>8. Listening'
  BY <1>1, <1>2, <1>3, <1>4, <1>10 DEF Listening, Beginning
<1>12. Results' /\ Registers'
  BY <1>1, <1>10 DEF Results, Registers
<1> QED
  BY <1>3, <1>5, <1>6, <1>7, <1>8, <1>12

\* A wait without a limit changes nothing but the place.
LEMMA WaitKeeps ==
  ASSUME CInv, Wait
  PROVE  CInv'
<1> USE DEF CInv, Runs, At, radio
<1>1. /\ op' = op /\ ip' = ip + 1
      /\ UNCHANGED <<device, polls, ok, value, inputs, radio>>
      /\ \/ op = "reset" /\ ip = 6
         \/ op = "part_number" /\ ip \in {2, 6}
         \/ op = "configure" /\ ip = 2
  BY Instructions DEF Wait
<1>2. ~Sending /\ ~Transferring /\ ~Transferring'
  BY <1>1 DEF Sending, Transferring
<1>3. /\ ssi!TypeOK' /\ Using' /\ Bytewise' /\ Progress' /\ ~Answered
      /\ ~Answered' /\ (Unheard' <=> Sending')
  BY <1>1, <1>2, DeviceRests DEF Answered
<1>4. Sending' <=> ip' = 3
  BY <1>1 DEF Sending
<1>5. Places'
  BY <1>1 DEF Places, Last
<1>6. Connected'
  BY <1>1, <1>2, <1>4 DEF Connected, Beginning
<1>7. Resetting'
  BY <1>1, <1>2, <1>3, <1>4, CcxPolls DEF Resetting
<1>8. Listening'
  BY <1>1, <1>2, <1>3, <1>4 DEF Listening, Beginning
<1>9. Results' /\ Registers'
  BY <1>1 DEF Results, Registers
<1> QED
  BY <1>3, <1>5, <1>6, <1>7, <1>8, <1>9

-----------------------------------------------------------------------------
(* Single bytes *)

\* What is known of the radio does not change with what the task does.
LEMMA SendWriteKeeps ==
  ASSUME CInv, SendWrite
  PROVE  CInv'
<1> USE DEF CInv, At, radio, caller
<1>1. Sending /\ Instruction[2] = Byte /\ pc[main] = "idle"
  BY Instructions DEF SendWrite, ssi!SendWrite
<1>2. /\ pc' = [pc EXCEPT ![main] = "send"] /\ txf' = Append(txf, Byte)
      /\ UNCHANGED <<count, lock, sem, rxf, ris, chans, left, out, failed, missed, chis, ien, pend, isr,
                     caller, radio>>
  BY <1>1 DEF SendWrite, ssi!SendWrite, ssi!Goto, ssi!dmaVars
<1>3. txf = <<>> /\ rxf = <<>> /\ pc \in [{main} -> {"idle", "lock", "start", "wait", "send"}]
  BY <1>1 DEF Using, ssi!TypeOK
<1>4. pc'[main] = "send" /\ txf' = <<Byte>> /\ rxf' = <<>> /\ txf' # <<>>
  BY <1>2, <1>3
<1>5. Byte \in Nat
  BY DEF Byte, SRES, ReadExtended, PARTNUMBER, ReadVersion, BurstWrite
<1>6. ssi!TypeOK'
  BY <1>2, <1>3, <1>4, <1>5, CcxFifo DEF ssi!TypeOK, ssi!Bytes, ssi!Channels
<1>7. (Sending' <=> Sending) /\ (Transferring' <=> Transferring) /\ (Beginning' <=> Beginning) /\ Byte' = Byte
  BY <1>2 DEF Sending, Transferring, Beginning, Byte
<1>8. (Unheard' <=> Unheard) /\ ~Answered'
  BY <1>1, <1>4, <1>7 DEF Unheard, Answered
<1>9. Places' /\ Connected' /\ Results' /\ Registers'
  BY <1>2, <1>7 DEF Places, Last, Connected, Results, Registers
<1>10. Using' /\ Bytewise' /\ Progress'
  BY <1>1, <1>2, <1>3, <1>4, <1>7 DEF Using, Bytewise, Progress
<1>11. Resetting' /\ Listening'
  BY <1>1, <1>2, <1>4, <1>7, <1>8 DEF Resetting, Listening, Transferring
<1> QED
  BY <1>6, <1>9, <1>10, <1>11

\* The answer that is read is the one to the byte that was sent.
LEMMA SendReadKeeps ==
  ASSUME CInv, SendRead
  PROVE  CInv'
<1> USE DEF CInv, At, radio
<1>1. /\ Sending /\ pc[main] = "send" /\ rxf # <<>>
      /\ Instruction[1] = "keep" <=> At("part_number", {5}) \/ At("version", {3})
  BY Instructions DEF SendRead, ssi!SendRead
<1>2. PICK a \in {StatusByte, CHIP_CC1201} : txf = <<>> /\ rxf = <<a>>
  BY <1>1 DEF Bytewise
<1>3. /\ pc' = [pc EXCEPT ![main] = "idle"] /\ rxf' = <<>> /\ ip' = ip + 1
      /\ ris' \subseteq ris
      /\ value' = IF Instruction[1] = "keep" THEN a ELSE value
      /\ UNCHANGED <<count, lock, sem, txf, chans, left, out, failed, missed, chis, ien, pend, isr,
                     op, polls, ok, inputs, radio>>
  BY <1>2 DEF SendRead, ssi!SendRead, ssi!Goto, ssi!dmaVars
<1>4. pc'[main] = "idle" /\ txf' = <<>>
  BY <1>2, <1>3 DEF ssi!TypeOK
<1>5. ssi!TypeOK'
  BY <1>2, <1>3, <1>4 DEF ssi!TypeOK, ssi!Bytes, ssi!Channels
<1>6. /\ Sending' <=> (op = "part_number" /\ ip \in {3, 4}) \/ (op = "version" /\ ip = 2)
      /\ Transferring' <=> op = "configure"
      /\ ~Beginning' /\ ~Transferring /\ ~Beginning
  BY <1>1, <1>3 DEF Sending, Transferring, Beginning
<1>7. Answered /\ ~Unheard /\ ~Answered' /\ (Unheard' <=> Sending')
  BY <1>1, <1>2, <1>4 DEF Answered, Unheard
<1>8. Places'
  BY <1>1, <1>3 DEF Places, Last, Sending
<1>9. Using' /\ Bytewise' /\ Progress'
  BY <1>1, <1>3, <1>4 DEF Using, Bytewise, Progress
<1>10. Connected'
  BY <1>1, <1>3, <1>6 DEF Connected, Sending
<1>11. Resetting'
  BY <1>1, <1>3, <1>6, <1>7, CcxPolls DEF Resetting, Sending
<1>12. Listening'
  BY <1>1, <1>3, <1>6, <1>7 DEF Listening, Sending
<1>13. Results'
  BY <1>1, <1>2, <1>3, <1>7 DEF Results, Listening, Sending
<1>14. Registers'
  BY <1>3 DEF Registers
<1> QED
  BY <1>5, <1>8, <1>9, <1>10, <1>11, <1>12, <1>13, <1>14

-----------------------------------------------------------------------------
(* Transfers *)

\* At the end of a transfer, with its token or given up, both FIFOs are empty; with a
\* token the radio has every value.
LEMMA TransferEnds ==
  ASSUME CInv, pc[main] = "wait", sem = 1 \/ ssi!Stuck
  PROVE  txf = <<>> /\ rxf = <<>> /\ (sem = 1 => pointer = N + 1)
<1> USE CcxConfiguration, CcxFifo DEF CInv, ssi!TypeOK, ssi!Bytes, ssi!Channels, Registers
<1>1. /\ Len(out) \in Nat /\ Len(rxf) \in Nat /\ Len(txf) \in Nat /\ pointer \in Nat
      /\ left["rx"] \in Nat /\ left["tx"] \in Nat
  OBVIOUS
<1>2. /\ Len(out) + Len(rxf) = pointer - 1 /\ pointer - 1 + Len(txf) = N - left["tx"]
      /\ Len(out) = N - left["rx"] /\ pointer <= N + 1
      /\ left["rx"] > 0 <=> "rx" \in chans
      /\ sem = 1 => left["rx"] = 0
  BY DEF Progress
<1>3. CASE left["rx"] = 0
  <2>1. Len(rxf) = 0 /\ Len(txf) = 0 /\ pointer = N + 1
    BY <1>1, <1>2, <1>3
  <2> QED
    BY <2>1
<1>4. CASE left["rx"] # 0
  <2>1. "rx" \in chans /\ sem # 1
    BY <1>1, <1>2, <1>4
  <2>2. txf = <<>> /\ rxf = <<>>
    BY <2>1 DEF ssi!Stuck, ssi!CanShift, ssi!CanDrain
  <2> QED
    BY <2>1, <2>2
<1> QED
  BY <1>3, <1>4

\* The task's part of a transfer.
LEMMA TransferKeeps ==
  ASSUME CInv, Transceive \/ ((ssi!TakeLock(main) \/ ssi!Start(main)) /\ UNCHANGED <<caller, radio>>)
  PROVE  CInv'
<1> USE CcxTask, CcxConfiguration
    DEF CInv, At, radio, caller, ssi!Goto, ssi!dmaVars, ssi!taskVars, ssi!fifoVars
<1>1. /\ op = "configure" /\ ip = 4
      /\ UNCHANGED <<caller, radio>>
  <2>1. CASE Transceive
    BY <2>1, Instructions DEF Transceive, Transferring
  <2>2. CASE ssi!TakeLock(main) \/ ssi!Start(main)
    BY <2>2 DEF Transceive, ssi!TakeLock, ssi!Start, Using, Transferring
  <2> QED
    BY <2>1, <2>2
<1>2. /\ pc[main] \in {"idle", "lock", "start"} /\ txf = <<>> /\ rxf = <<>>
      /\ pc' = [pc EXCEPT ![main] = pc'[main]]
      /\ UNCHANGED <<txf, rxf>>
  BY DEF Transceive, ssi!Transceive, ssi!TakeLock, ssi!Start, Using, ssi!TypeOK
<1>3. ssi!TypeOK'
  <2>1. CASE Transceive
    BY <2>1 DEF Transceive, ssi!Transceive, ssi!TypeOK, ssi!Bytes, ssi!Channels
  <2>2. CASE ssi!TakeLock(main)
    BY <2>2 DEF ssi!TakeLock, ssi!TypeOK, ssi!Bytes, ssi!Channels
  <2>3. CASE ssi!Start(main)
    <3>1. missed' \in BOOLEAN /\ ien' \in BOOLEAN
      BY <2>3, Zenon DEF ssi!Start
    <3> QED
      BY <2>3, <3>1 DEF ssi!Start, ssi!TypeOK, ssi!Bytes, ssi!Channels
  <2> QED
    BY <2>1, <2>2, <2>3
<1>4. ~Sending /\ Transferring /\ ~Sending' /\ Transferring' /\ ~Beginning'
  BY <1>1 DEF Sending, Transferring, Beginning
<1>5. phase = "burst" /\ pointer = 1
  BY <1>1, <1>2, <1>4 DEF Listening
<1>6. Places' /\ Connected' /\ Results' /\ Registers'
  BY <1>1, <1>4 DEF Places, Last, Connected, Results, Registers
<1>7. Using'
  BY <1>1, <1>2, <1>4 DEF Using, Transceive, ssi!Transceive, ssi!TakeLock, ssi!Start, ssi!TypeOK
<1>8. Bytewise' /\ Resetting' /\ Listening'
  BY <1>1, <1>2, <1>4, <1>5, <1>7 DEF Bytewise, Using, Resetting, Listening, Unheard, Answered, ssi!TypeOK
<1>9. Progress'
  <2>1. CASE pc'[main] = "wait"
    <3>1. /\ out' = <<>> /\ ris' = {} /\ chis' = {} /\ sem' = 0
          /\ chans' = {"tx", "rx"} /\ left' = [c \in {"tx", "rx"} |-> N]
      BY <1>2, <2>1 DEF Transceive, ssi!Transceive, ssi!TakeLock, ssi!Start, Using, ssi!Channels, ssi!TypeOK
    <3> QED
      BY <1>1, <1>2, <1>5, <3>1 DEF Progress
  <2> QED
    BY <2>1 DEF Progress
<1> QED
  BY <1>3, <1>6, <1>7, <1>8, <1>9

\* Its end, after which configure() goes on the same with either result.
LEMMA TransceiveEndKeeps ==
  ASSUME CInv, TransceiveEnd
  PROVE  CInv'
<1> USE CcxTask, CcxConfiguration
    DEF CInv, At, radio, ssi!Goto, ssi!dmaVars, ssi!taskVars, ssi!fifoVars
<1>1. /\ pc[main] = "wait" /\ ip' = ip + 1
      /\ pc' = [pc EXCEPT ![main] = "idle"] /\ chans' = {} /\ lock' = NoTask
      /\ count' = [count EXCEPT ![main] = 0] /\ out' = <<>>
      /\ sem' \in {sem, 0}
      /\ sem = 1 \/ ssi!Stuck
      /\ UNCHANGED <<txf, rxf, ris, left, failed, chis, pend, isr, op, polls, ok, value, inputs, radio>>
  BY DEF TransceiveEnd, ssi!ReturnTrue, ssi!ReturnFalse, ssi!Return
<1>2. ~ien' /\ ~missed' /\ ien' \in BOOLEAN /\ missed' \in BOOLEAN
  BY Zenon DEF TransceiveEnd, ssi!ReturnTrue, ssi!ReturnFalse, ssi!Return
<1>3. txf = <<>> /\ rxf = <<>>
  BY <1>1, TransferEnds
<1>4. op = "configure" /\ ip = 4 /\ pc'[main] = "idle"
  BY <1>1 DEF Using, Transferring, ssi!TypeOK
<1>6. ssi!TypeOK'
  BY <1>1, <1>2 DEF ssi!TypeOK, ssi!Bytes, ssi!Channels
<1>7. ~Sending /\ ~Sending' /\ ~Transferring' /\ ~Beginning'
  BY <1>1, <1>4 DEF Sending, Transferring, Beginning
<1>8. Places' /\ Results' /\ Registers'
  BY <1>1, <1>4 DEF Places, Last, Results, Registers
<1>9. Using' /\ Bytewise' /\ Progress'
  BY <1>1, <1>2, <1>3, <1>4 DEF Using, Bytewise, Progress
<1>10. Connected' /\ Resetting' /\ Listening'
  BY <1>1, <1>4, <1>7 DEF Connected, Resetting, Listening, Unheard, Answered
<1> QED
  BY <1>6, <1>8, <1>9, <1>10

-----------------------------------------------------------------------------
(* The device, the handlers and the radio *)

\* A FIFO with one more byte.
LEMMA AppendFacts ==
  ASSUME NEW s \in Seq(Nat), NEW e \in Nat
  PROVE  /\ Append(s, e) \in Seq(Nat) /\ Len(s) \in Nat /\ Len(Append(s, e)) = Len(s) + 1
         /\ \A i \in 1..Len(s) : Append(s, e)[i] = s[i]
         /\ Append(s, e)[Len(s) + 1] = e
OBVIOUS

\* The rest of a FIFO behind its first byte.
LEMMA TailFacts ==
  ASSUME NEW s \in Seq(Nat), s # <<>>
  PROVE  /\ Len(s) \in Nat /\ Len(s) > 0 /\ Head(s) = s[1] /\ Head(s) \in Nat
         /\ Tail(s) \in Seq(Nat) /\ Len(Tail(s)) = Len(s) - 1
         /\ \A i \in 1..Len(Tail(s)) : Tail(s)[i] = s[i + 1]
OBVIOUS

\* A byte that a channel moves is its last or leaves it enabled.
LEMMA MovedFacts ==
  ASSUME CInv, pc[main] = "wait", NEW c \in {"tx", "rx"}, c \in chans, ssi!Moved(c)
  PROVE  /\ left' \in [{"tx", "rx"} -> Nat] /\ left[c] > 0 /\ left'[c] = left[c] - 1
         /\ \A d \in {"tx", "rx"} : d # c => left'[d] = left[d]
         /\ chans' \subseteq {"tx", "rx"} /\ chis' \subseteq {"tx", "rx"} /\ pend' \in BOOLEAN
         /\ left'["rx"] > 0 <=> "rx" \in chans'
         /\ "tx" \in chans' => left'["tx"] > 0
         /\ "rx" \in chis' => "rx" \in chis \/ (c = "rx" /\ left'["rx"] = 0)
<1>1. /\ left \in [{"tx", "rx"} -> Nat] /\ chans \subseteq {"tx", "rx"} /\ chis \subseteq {"tx", "rx"}
      /\ left["rx"] > 0 <=> "rx" \in chans
      /\ "tx" \in chans => left["tx"] > 0
  BY DEF CInv, ssi!TypeOK, ssi!Channels, Progress
<1>2. pend' \in BOOLEAN
  BY Zenon DEF ssi!Moved, CInv, ssi!TypeOK
<1>3. left' = [left EXCEPT ![c] = left[c] - 1] /\ left[c] > 0
  BY <1>1 DEF ssi!Moved
<1>4. CASE left[c] = 1
  <2>1. chans' = chans \ {c} /\ chis' = chis \cup {c}
    BY <1>4 DEF ssi!Moved
  <2> QED
    BY <1>1, <1>2, <1>3, <1>4, <2>1
<1>5. CASE left[c] # 1
  <2>1. chans' = chans /\ chis' = chis
    BY <1>5 DEF ssi!Moved
  <2> QED
    BY <1>1, <1>2, <1>3, <1>5, <2>1
<1> QED
  BY <1>4, <1>5

\* A transfer is the only user of the channels.
LEMMA Transferred ==
  ASSUME CInv, pc[main] = "wait"
  PROVE  /\ ~Sending /\ ~Unheard /\ ~Answered /\ Transferring /\ count[main] = N /\ lock = main
         /\ op = "configure" /\ ip = 4
BY DEF CInv, Using, Transferring, Sending, Unheard, Answered, At

\* What the task has come to does not depend on the channels.
LEMMA TransferStaysInPlace ==
  ASSUME CInv, pc[main] = "wait", UNCHANGED <<caller, pc, count, lock, ien>>,
         UNCHANGED <<selected, ready, heard>>, phase' = "burst", Registers', ssi!TypeOK', Progress'
  PROVE  CInv'
<1> USE DEF CInv, caller, At
<1>1. ~Sending /\ Transferring /\ ~Sending' /\ Transferring' /\ ~Beginning' /\ op = "configure" /\ ip = 4
  BY Transferred DEF Sending, Transferring, Beginning
<1>2. Places' /\ Using' /\ Bytewise' /\ Connected' /\ Results'
  BY <1>1 DEF Places, Last, Using, Bytewise, Connected, Results
<1>3. Resetting' /\ Listening'
  BY <1>1 DEF Resetting, Listening, Unheard, Answered, Phases
<1> QED
  BY <1>2, <1>3

\* The transmit channel hands over the next value of the configuration.
LEMMA FillKeeps ==
  ASSUME CInv, ssi!Fill, UNCHANGED <<caller, radio>>
  PROVE  CInv'
<1> USE CcxConfiguration DEF CInv, radio, ssi!taskVars
<1>1. /\ "tx" \in chans /\ Len(txf) < FifoSize /\ ssi!Moved("tx")
      /\ UNCHANGED <<pc, count, lock, sem, rxf, ris, out, failed, missed, ien, isr>>
      /\ lock = main /\ txf' = Append(txf, count[main] - left["tx"] + 1)
  BY DEF ssi!Fill, ssi!CanFill
<1>2. pc[main] = "wait"
  BY <1>1 DEF Using
<1>3. /\ left' \in [{"tx", "rx"} -> Nat] /\ left["tx"] > 0 /\ left'["tx"] = left["tx"] - 1
      /\ left'["rx"] = left["rx"]
      /\ chans' \subseteq {"tx", "rx"} /\ chis' \subseteq {"tx", "rx"} /\ pend' \in BOOLEAN
      /\ left'["rx"] > 0 <=> "rx" \in chans'
      /\ "tx" \in chans' => left'["tx"] > 0
      /\ "rx" \in chis' => "rx" \in chis
  BY <1>1, <1>2, MovedFacts
<1>4. /\ txf \in Seq(Nat) /\ left["tx"] \in Nat /\ Len(out) \in Nat /\ Len(rxf) \in Nat
      /\ left \in [{"tx", "rx"} -> Nat]
  BY DEF ssi!TypeOK, ssi!Bytes, ssi!Channels
<1>5. /\ count[main] = N /\ pointer \in 1..(N + 1)
      /\ pointer - 1 + Len(txf) = N - left["tx"] /\ phase = "burst"
  BY <1>2, Transferred DEF Progress, Registers
<1>6. count[main] - left["tx"] + 1 \in Nat /\ count[main] - left["tx"] + 1 = pointer + Len(txf)
  BY <1>4, <1>5
<1>7. /\ txf' \in Seq(Nat) /\ Len(txf) \in Nat /\ Len(txf') = Len(txf) + 1
      /\ \A i \in 1..Len(txf) : txf'[i] = txf[i]
      /\ txf'[Len(txf) + 1] = pointer + Len(txf)
  BY <1>1, <1>4, <1>6, AppendFacts
<1>8. \A i \in 1..Len(txf') : txf'[i] = pointer' - 1 + i
  <2> SUFFICES ASSUME NEW i \in 1..Len(txf') PROVE txf'[i] = pointer - 1 + i
    OBVIOUS
  <2>1. CASE i = Len(txf) + 1
    BY <1>5, <1>7, <2>1
  <2>2. CASE i # Len(txf) + 1
    <3>1. i \in 1..Len(txf)
      BY <1>7, <2>2
    <3> QED
      BY <1>2, <1>7, <3>1 DEF Progress
  <2> QED
    BY <2>1, <2>2
<1>9. Progress'
  <2>1. /\ Len(out') + Len(rxf') = pointer' - 1 /\ pointer' - 1 + Len(txf') = N - left'["tx"]
        /\ Len(out') = N - left'["rx"]
    BY <1>1, <1>2, <1>3, <1>4, <1>5, <1>7 DEF Progress
  <2>2. /\ \A i \in 1..N : i < pointer' => regs'[i] = i
        /\ phase' = "burst" /\ ris' = {}
        /\ sem' = 1 \/ "rx" \in chis' => left'["rx"] = 0
    BY <1>1, <1>2, <1>3 DEF Progress
  <2> QED
    BY <1>3, <1>8, <2>1, <2>2 DEF Progress
<1>10. ssi!TypeOK'
  BY <1>1, <1>3, <1>4, <1>7, CcxFifo DEF ssi!TypeOK, ssi!Bytes, ssi!Channels
<1>11. Registers' /\ phase' = "burst"
  BY <1>5 DEF Registers
<1> QED
  BY <1>1, <1>2, <1>9, <1>10, <1>11, TransferStaysInPlace

\* A transmit channel that fails leaves what it has handed over.
LEMMA SourceFailsKeeps ==
  ASSUME CInv, ssi!ChannelFails("tx"), UNCHANGED <<caller, radio>>
  PROVE  CInv'
<1> USE DEF CInv, radio, ssi!taskVars, ssi!fifoVars
<1>1. /\ "tx" \in chans /\ chans' = chans \ {"tx"} /\ failed' = failed \cup {"tx"}
      /\ UNCHANGED <<pc, count, lock, sem, txf, rxf, ris, left, out, missed, chis, ien, pend, isr>>
  BY DEF ssi!ChannelFails
<1>2. pc[main] = "wait"
  BY <1>1 DEF Using
<1>3. ssi!TypeOK'
  BY <1>1 DEF ssi!TypeOK, ssi!Bytes, ssi!Channels
<1>4. Registers' /\ phase' = "burst"
  BY <1>2 DEF Registers, Progress
<1>5. Progress'
  BY <1>1, <1>2 DEF Progress
<1> QED
  BY <1>1, <1>2, <1>3, <1>4, <1>5, TransferStaysInPlace

\* The receive channel fetches an answer.
LEMMA DrainKeeps ==
  ASSUME CInv, ssi!Drain, UNCHANGED <<caller, radio>>
  PROVE  CInv'
<1> USE CcxConfiguration DEF CInv, radio, ssi!taskVars
<1>1. /\ "rx" \in chans /\ rxf # <<>> /\ ssi!Moved("rx")
      /\ UNCHANGED <<pc, count, lock, sem, txf, failed, missed, ien, isr>>
      /\ out' = Append(out, Head(rxf)) /\ rxf' = Tail(rxf) /\ ris' \subseteq ris
  BY DEF ssi!Drain, ssi!CanDrain
<1>2. pc[main] = "wait"
  BY <1>1 DEF Using
<1>3. /\ left' \in [{"tx", "rx"} -> Nat] /\ left["rx"] > 0 /\ left'["rx"] = left["rx"] - 1
      /\ left'["tx"] = left["tx"]
      /\ chans' \subseteq {"tx", "rx"} /\ chis' \subseteq {"tx", "rx"} /\ pend' \in BOOLEAN
      /\ left'["rx"] > 0 <=> "rx" \in chans'
      /\ "tx" \in chans' => left'["tx"] > 0
      /\ "rx" \in chis' => "rx" \in chis \/ left'["rx"] = 0
  BY <1>1, <1>2, MovedFacts
<1>4. rxf \in Seq(Nat) /\ out \in Seq(Nat) /\ Len(txf) \in Nat /\ left \in [{"tx", "rx"} -> Nat]
  BY DEF ssi!TypeOK, ssi!Bytes, ssi!Channels
<1>5. /\ Len(rxf) \in Nat /\ Len(rxf) > 0 /\ Head(rxf) \in Nat
      /\ rxf' \in Seq(Nat) /\ Len(rxf') = Len(rxf) - 1
  BY <1>1, <1>4, TailFacts
<1>6. out' \in Seq(Nat) /\ Len(out) \in Nat /\ Len(out') = Len(out) + 1
  BY <1>1, <1>4, <1>5, AppendFacts
<1>7. Registers' /\ phase' = "burst" /\ pointer \in Nat
  BY <1>2 DEF Registers, Progress
<1>8. Progress'
  <2>1. /\ Len(out') + Len(rxf') = pointer' - 1 /\ pointer' - 1 + Len(txf') = N - left'["tx"]
        /\ Len(out') = N - left'["rx"]
    <3>1. /\ Len(out) + Len(rxf) = pointer - 1 /\ pointer - 1 + Len(txf) = N - left["tx"]
          /\ Len(out) = N - left["rx"]
      BY <1>2 DEF Progress
    <3>2. left["tx"] \in Nat /\ left["rx"] \in Nat /\ txf' = txf /\ pointer' = pointer
      BY <1>1, <1>4
    <3> HIDE DEF CInv
    <3>3. Len(out') + Len(rxf') = pointer' - 1
      BY <1>5, <1>6, <1>7, <3>1, <3>2
    <3>4. pointer' - 1 + Len(txf') = N - left'["tx"]
      BY <1>3, <3>1, <3>2
    <3>5. Len(out') = N - left'["rx"]
      BY <1>3, <1>6, <3>1, <3>2
    <3> QED
      BY <3>3, <3>4, <3>5
  <2>2. /\ \A i \in 1..N : i < pointer' => regs'[i] = i
        /\ \A i \in 1..Len(txf') : txf'[i] = pointer' - 1 + i
        /\ phase' = "burst" /\ ris' = {}
    BY <1>1, <1>2 DEF Progress
  <2>3. sem' = 1 \/ "rx" \in chis' => left'["rx"] = 0
    BY <1>1, <1>2, <1>3 DEF Progress
  <2> QED
    BY <1>3, <2>1, <2>2, <2>3 DEF Progress
<1>9. ssi!TypeOK'
  BY <1>1, <1>3, <1>4, <1>5, <1>6, CcxFifo DEF ssi!TypeOK, ssi!Bytes, ssi!Channels
<1> QED
  BY <1>1, <1>2, <1>7, <1>8, <1>9, TransferStaysInPlace

\* A receive timeout needs bytes that no channel fetches: there are none in a transfer.
LEMMA ReceiveTimeoutKeeps ==
  ASSUME CInv, ssi!ReceiveTimeout, UNCHANGED <<caller, radio>>
  PROVE  CInv'
<1> USE DEF CInv, caller, radio, ssi!taskVars, ssi!fifoVars, ssi!dmaVars, At
<1>1. /\ rxf # <<>> /\ txf = <<>> /\ "rx" \notin chans
      /\ ris' = ris \cup {"RT"} /\ pend' = TRUE
      /\ UNCHANGED <<pc, count, lock, sem, txf, rxf, chans, left, out, failed, missed, chis, ien, isr>>
  BY DEF ssi!ReceiveTimeout, ssi!CanTimeOut
<1>2. pc[main] # "wait"
  <2> SUFFICES ASSUME pc[main] = "wait" PROVE FALSE
    OBVIOUS
  <2>1. /\ Len(out) + Len(rxf) = pointer - 1 /\ Len(out) = N - left["rx"] /\ pointer \in 1..(N + 1)
        /\ left["rx"] \in Nat /\ ~(left["rx"] > 0)
    BY <1>1 DEF Progress, Registers, ssi!TypeOK, ssi!Channels
  <2>2. Len(rxf) \in Nat /\ Len(rxf) > 0 /\ Len(out) \in Nat
    BY <1>1 DEF ssi!TypeOK, ssi!Bytes
  <2> QED
    BY <2>1, <2>2, CcxConfiguration
<1>3. ssi!TypeOK'
  BY <1>1 DEF ssi!TypeOK, ssi!Bytes, ssi!Channels
<1>4. Places' /\ Using' /\ Bytewise' /\ Connected' /\ Results' /\ Registers'
  BY <1>1 DEF Places, Last, Using, Bytewise, Byte, Connected, Beginning, Sending, Transferring,
     Results, Registers
<1>5. Resetting' /\ Listening' /\ Progress'
  BY <1>1, <1>2 DEF Resetting, Listening, Progress, Unheard, Answered, Sending, Transferring,
     Beginning
<1> QED
  BY <1>3, <1>4, <1>5

\* A handler gives a token for the end of the receive channel alone.
LEMMA HandlersKeep ==
  ASSUME CInv, ssi!Isr \/ ssi!TimerEnter, UNCHANGED <<caller, radio>>
  PROVE  CInv'
<1> USE DEF CInv, caller, radio, ssi!taskVars, ssi!fifoVars, ssi!dmaVars, At
<1>1. /\ UNCHANGED <<pc, count, lock, txf, rxf, chans, left, out, failed, ien>>
      /\ ris' \subseteq ris /\ chis' \subseteq chis
      /\ sem' = sem \/ (sem' = 1 /\ (ris # {} \/ "rx" \in chis))
      /\ isr' \in {"none", "ssi", "timer"}
  BY DEF ssi!Isr, ssi!SsiEnter, ssi!SsiBody, ssi!Gives, ssi!TimerEnter, ssi!TimerBody
<1>2. missed' \in BOOLEAN /\ pend' \in BOOLEAN
  BY Zenon DEF ssi!TypeOK, ssi!Isr, ssi!SsiEnter, ssi!SsiBody, ssi!TimerEnter, ssi!TimerBody
<1>3. ssi!TypeOK'
  BY <1>1, <1>2 DEF ssi!TypeOK, ssi!Bytes, ssi!Channels
<1>4. Places' /\ Using' /\ Bytewise' /\ Connected' /\ Results' /\ Registers'
  BY <1>1 DEF Places, Last, Using, Bytewise, Byte, Connected, Beginning, Sending, Transferring,
     Results, Registers
<1>5. Resetting' /\ Listening'
  BY <1>1 DEF Resetting, Listening, Unheard, Answered, Sending, Transferring, Beginning
<1>6. Progress'
  BY <1>1 DEF Progress
<1> QED
  BY <1>3, <1>4, <1>5, <1>6

\* A radio that becomes ready makes nothing false.
LEMMA RadioReadyKeeps ==
  ASSUME CInv, RadioReady
  PROVE  CInv'
<1> USE DEF CInv, RadioReady, caller, device, At
<1>1. /\ UNCHANGED <<pc, count, lock, sem, txf, rxf, ris, chans, left, out, failed, missed, chis,
                     ien, pend, isr, op, ip, polls, ok, value, inputs, selected, phase, pointer, regs,
                     heard>>
      /\ ready'
  OBVIOUS
<1>2. ready' \in BOOLEAN
  BY Zenon
<1>3. ssi!TypeOK'
  BY <1>1 DEF ssi!TypeOK
<1>4. Places' /\ Using' /\ Bytewise' /\ Connected' /\ Results' /\ Registers'
  BY <1>1, <1>2 DEF Places, Last, Using, Bytewise, Byte, Connected, Beginning, Sending,
     Transferring, Results, Registers
<1>5. Resetting' /\ Listening' /\ Progress'
  BY <1>1 DEF Resetting, Listening, Progress, Unheard, Answered, Sending, Transferring, Beginning
<1> QED
  BY <1>3, <1>4, <1>5

\* A byte that is shifted out goes to a selected radio, which is ready but for a reset.
LEMMA ShiftReaches ==
  ASSUME CInv, txf # <<>>
  PROVE  /\ selected /\ (op = "reset" \/ ready)
         /\ pc[main] = "send" \/ pc[main] = "wait"
<1> USE DEF CInv
<1>1. pc[main] = "send" \/ pc[main] = "wait"
  BY DEF Using, ssi!TypeOK
<1>2. Sending \/ Transferring
  BY <1>1 DEF Using
<1>3. op \in {"reset", "part_number", "version", "configure"}
  BY <1>2 DEF Sending, Transferring, At
<1> QED
  BY <1>1, <1>2, <1>3 DEF Connected

\* The byte of a send(): heard by a radio that is ready, and answered.
LEMMA ShiftSends ==
  ASSUME CInv, Shift, pc[main] = "send"
  PROVE  CInv'
<1> USE CcxFifo, CcxConfiguration
    DEF CInv, caller, At, ssi!taskVars, ssi!dmaVars
<1>1. txf = <<Byte>> /\ rxf = <<>> /\ Sending /\ Head(txf) = Byte /\ Unheard
  BY DEF Shift, Bytewise, Using, Unheard
<1>2. /\ txf' = <<>> /\ rxf' = <<Answer>>
      /\ UNCHANGED <<pc, count, lock, sem, ris, chans, left, out, failed, missed, chis, ien, pend, isr,
                     op, ip, polls, ok, value, inputs, selected>>
  BY <1>1 DEF Shift, ssi!ShiftAnswer
<1>3. Answer \in {StatusByte, CHIP_CC1201} /\ StatusByte \in Nat /\ CHIP_CC1201 \in Nat
  BY DEF Answer, StatusByte, CHIP_CC1201
<1>4. selected /\ (op = "reset" \/ ready)
  BY <1>1, ShiftReaches
<1>5. /\ phase # "burst" \/ op = "configure"
      /\ op \in {"reset", "configure"} \/ At("part_number", {3}) => phase = "header"
      /\ At("part_number", {4}) => phase = "extended"
      /\ At("part_number", {5}) => phase = "partnumber"
      /\ phase \in Phases
  BY <1>1 DEF Listening
<1>6. op = "reset" => Byte = SRES
  BY DEF Byte
<1>7. op # "reset" => Byte # SRES /\ Hears
  BY <1>1, <1>4 DEF Byte, Sending, SRES, ReadExtended, PARTNUMBER, ReadVersion, BurstWrite, Hears
<1>8. \/ Hear(Byte)
      \/ op = "reset" /\ ~ready /\ UNCHANGED <<ready, phase, pointer, regs, heard>>
  BY <1>1, <1>4, <1>6, <1>7 DEF Shift, Hears
<1>9. phase # "burst"
  BY <1>1, <1>5 DEF Sending
<1>10. /\ Registers' /\ phase' \in Phases
       /\ op # "configure" => phase' # "burst"
       /\ At("part_number", {3}) => phase' = "extended"
       /\ At("part_number", {4}) => phase' = "partnumber"
       /\ op = "configure" => phase' = "burst" /\ pointer' = 1
  <2>1. CASE Hear(Byte)
    <3>1. phase' = NextPhase(Byte) /\ pointer' = 1 /\ (regs' = regs \/ regs' = [i \in 1..N |-> 0])
      BY <1>9, <2>1 DEF Hear, HearsReset
    <3>2. Registers'
      BY <3>1 DEF Registers
    <3>3. /\ NextPhase(Byte) \in Phases /\ (NextPhase(Byte) = "burst" => Byte = BurstWrite)
          /\ At("part_number", {3}) => NextPhase(Byte) = "extended"
          /\ At("part_number", {4}) => NextPhase(Byte) = "partnumber"
          /\ op = "configure" => NextPhase(Byte) = "burst"
      <4>1. /\ At("part_number", {3}) => Byte = ReadExtended
            /\ At("part_number", {4}) => Byte = PARTNUMBER
            /\ op = "configure" => Byte = BurstWrite
        BY DEF Byte
      <4>2. NextPhase(Byte) \in Phases /\ (NextPhase(Byte) = "burst" => Byte = BurstWrite)
        BY <1>9 DEF NextPhase, AfterHeader, Phases
      <4>3. /\ phase = "header" => NextPhase(ReadExtended) = "extended"
            /\ phase = "extended" => NextPhase(PARTNUMBER) = "partnumber"
            /\ phase = "header" => NextPhase(BurstWrite) = "burst"
        BY DEF NextPhase, AfterHeader, SRES, ReadExtended, PARTNUMBER, BurstWrite
      <4> QED
        BY <1>5, <4>1, <4>2, <4>3
    <3>4. op # "configure" => Byte # BurstWrite
      BY <1>1 DEF Byte, Sending, SRES, ReadExtended, PARTNUMBER, ReadVersion, BurstWrite
    <3> QED
      BY <3>1, <3>2, <3>3, <3>4
  <2>2. CASE op = "reset" /\ ~ready /\ UNCHANGED <<ready, phase, pointer, regs, heard>>
    BY <1>5, <2>2 DEF Registers
  <2> QED
    BY <1>8, <2>1, <2>2
<1>11. /\ op # "reset" => ready' = ready /\ regs' = regs
       /\ op = "reset" /\ ready => heard'
       /\ ready' \in BOOLEAN /\ heard' \in BOOLEAN
  <2>1. CASE Hear(Byte) /\ op = "reset"
    <3>1. HearsReset
      BY <1>5, <1>6, <2>1 DEF Hear
    <3> QED
      BY <2>1, <3>1, Zenon DEF HearsReset
  <2>2. CASE Hear(Byte) /\ op # "reset"
    <3>1. UNCHANGED <<ready, heard, regs>>
      BY <1>7, <1>9, <2>2 DEF Hear
    <3> QED
      BY <2>2, <3>1 DEF Connected
  <2>3. CASE op = "reset" /\ ~ready /\ UNCHANGED <<ready, phase, pointer, regs, heard>>
    BY <2>3 DEF Connected
  <2> QED
    BY <1>8, <2>1, <2>2, <2>3
<1>12. /\ (Sending' <=> Sending) /\ (Transferring' <=> Transferring) /\ ~Transferring /\ ~Beginning'
       /\ ~Unheard' /\ Answered'
  BY <1>1, <1>2 DEF Sending, Transferring, Beginning, Unheard, Answered
<1>13. ssi!TypeOK'
  BY <1>2, <1>3 DEF ssi!TypeOK, ssi!Bytes, ssi!Channels
<1>14. Places' /\ Using' /\ Bytewise' /\ Progress'
  BY <1>1, <1>2, <1>3, <1>12 DEF Places, Last, Using, Bytewise, Progress
<1>15. Connected'
  BY <1>1, <1>2, <1>11, <1>12 DEF Connected, Sending
<1>16. Resetting'
  BY <1>1, <1>2, <1>11, <1>12 DEF Resetting, Sending
<1>17. Listening'
  <2>1. At("part_number", {5}) => rxf' = <<CHIP_CC1201>>
    BY <1>2, <1>5, <1>7 DEF Answer
  <2> QED
    BY <1>1, <1>2, <1>10, <1>12, <2>1 DEF Listening, Sending
<1>18. Results'
  BY <1>1, <1>2, <1>11 DEF Results, Sending
<1> QED
  BY <1>10, <1>13, <1>14, <1>15, <1>16, <1>17, <1>18

\* A value of the configuration, for which there is room in its register and for its
\* answer in the receive FIFO.
LEMMA ShiftTransfers ==
  ASSUME CInv, Shift, pc[main] = "wait"
  PROVE  CInv'
<1> USE CcxConfiguration, CcxFifo DEF CInv, caller, ssi!taskVars, ssi!dmaVars
<1>1. txf # <<>> /\ selected /\ ready
  <2>1. txf # <<>> /\ op = "configure"
    BY Transferred DEF Shift
  <2> QED
    BY <2>1, ShiftReaches
<1>2. /\ txf \in Seq(Nat) /\ rxf \in Seq(Nat) /\ out \in Seq(Nat) /\ left \in [{"tx", "rx"} -> Nat]
      /\ Len(rxf) \in Nat /\ Len(out) \in Nat /\ pointer \in 1..(N + 1)
  BY DEF ssi!TypeOK, ssi!Bytes, ssi!Channels, Registers
<1>3. /\ Len(txf) \in Nat /\ Len(txf) > 0 /\ Head(txf) = txf[1] /\ Tail(txf) \in Seq(Nat)
      /\ Len(Tail(txf)) = Len(txf) - 1 /\ \A i \in 1..Len(Tail(txf)) : Tail(txf)[i] = txf[i + 1]
  BY <1>1, <1>2, TailFacts
<1>4. /\ Len(out) + Len(rxf) = pointer - 1 /\ pointer - 1 + Len(txf) = N - left["tx"]
      /\ Len(out) = N - left["rx"] /\ (left["rx"] > 0 <=> "rx" \in chans)
      /\ \A i \in 1..Len(txf) : txf[i] = pointer - 1 + i
      /\ \A i \in 1..N : i < pointer => regs[i] = i
      /\ phase = "burst" /\ ris = {}
  BY DEF Progress
<1>5. Head(txf) = pointer /\ pointer <= N
  BY <1>2, <1>3, <1>4
<1>6. Len(rxf) < FifoSize
  <2>1. Len(rxf) = 0 \/ "rx" \notin chans
    <3>1. ~("rx" \in chans /\ rxf # <<>>)
      BY DEF Shift, ssi!ShiftAnswer, ssi!CanDrain
    <3> QED
      BY <1>2, <3>1
  <2> QED
    BY <1>2, <1>4, <1>5, <2>1
<1>7. Answer \in Nat
  BY DEF Answer, StatusByte, CHIP_CC1201
<1>8. /\ txf' = Tail(txf) /\ rxf' = Append(rxf, Answer)
      /\ UNCHANGED <<pc, count, lock, sem, ris, chans, left, out, failed, missed, chis, ien, pend, isr,
                     caller, selected>>
  BY <1>6 DEF Shift, ssi!ShiftAnswer
<1>9. /\ phase' = "burst" /\ pointer' = pointer + 1
      /\ regs' = [regs EXCEPT ![pointer] = pointer] /\ UNCHANGED <<ready, heard>>
  <2>1. Hear(Head(txf))
    <3>1. Hears
      BY <1>1 DEF Hears
    <3> QED
      BY <1>1, <3>1 DEF Shift, Hears
  <2> QED
    BY <1>4, <1>5, <2>1 DEF Hear, NextPhase
<1>10. rxf' \in Seq(Nat) /\ Len(rxf') = Len(rxf) + 1
  BY <1>2, <1>7, <1>8, AppendFacts
<1>11. Registers'
  BY <1>2, <1>5, <1>9 DEF Registers
<1>12. ssi!TypeOK'
  BY <1>3, <1>6, <1>8, <1>10, <1>2 DEF ssi!TypeOK, ssi!Bytes, ssi!Channels
<1>13. \A i \in 1..Len(txf') : txf'[i] = pointer' - 1 + i
  <2> SUFFICES ASSUME NEW i \in 1..Len(Tail(txf)) PROVE Tail(txf)[i] = pointer + 1 - 1 + i
    BY <1>2, <1>8, <1>9
  <2>1. Tail(txf)[i] = txf[i + 1] /\ i + 1 \in 1..Len(txf)
    BY <1>3
  <2> QED
    BY <1>2, <1>4, <2>1
<1>14. \A i \in 1..N : i < pointer' => regs'[i] = i
  <2> SUFFICES ASSUME NEW i \in 1..N, i < pointer + 1 PROVE regs'[i] = i
    BY <1>9
  <2>1. CASE i = pointer
    BY <1>9, <2>1 DEF Registers
  <2>2. CASE i # pointer
    BY <1>2, <1>4, <1>9, <2>2 DEF Registers
  <2> QED
    BY <2>1, <2>2
<1>15. /\ Len(out') + Len(rxf') = pointer' - 1 /\ pointer' - 1 + Len(txf') = N - left'["tx"]
       /\ Len(out') = N - left'["rx"]
  <2>1. Len(out') = Len(out) /\ left' = left /\ Len(txf') = Len(txf) - 1 /\ pointer' = pointer + 1
    BY <1>3, <1>8, <1>9
  <2>2. left["tx"] \in Nat /\ left["rx"] \in Nat
    BY <1>2
  <2>3. Len(out') + Len(rxf') = pointer' - 1
    <3>1. /\ Len(out) \in Nat /\ Len(rxf) \in Nat /\ pointer \in Nat
          /\ Len(out) + Len(rxf) = pointer - 1
      BY <1>2, <1>4
    <3> QED
      BY <1>10, <2>1, <3>1
  <2>4. pointer' - 1 + Len(txf') = N - left'["tx"]
    BY <1>2, <1>3, <1>4, <2>1, <2>2
  <2>5. Len(out') = N - left'["rx"]
    BY <1>4, <2>1
  <2> QED
    BY <2>3, <2>4, <2>5
<1>16. Progress'
  BY <1>8, <1>9, <1>13, <1>14, <1>15 DEF Progress
<1> QED
  BY <1>8, <1>9, <1>11, <1>12, <1>16, TransferStaysInPlace

-----------------------------------------------------------------------------
(* The theorems *)

\* The invariant holds when the task starts, whatever radio it finds,
LEMMA InitInvariant == Init => CInv
<1> SUFFICES ASSUME Init PROVE CInv
  OBVIOUS
<1> USE CcxTask, CcxConfiguration, CcxFifo, CcxPolls DEF Init, ssi!Init, At
<1>1. missed \in BOOLEAN /\ ien \in BOOLEAN /\ pend \in BOOLEAN /\ ok \in BOOLEAN
      /\ heard \in BOOLEAN /\ ~ok /\ ~ien
  BY Zenon
<1>2. ssi!TypeOK
  BY <1>1 DEF ssi!TypeOK, ssi!Bytes, ssi!Channels
<1>3. Places /\ Using /\ Bytewise /\ Progress
  BY <1>1 DEF Places, Last, Using, Bytewise, Progress
<1>4. Connected /\ Resetting /\ Listening
  BY <1>1 DEF Connected, Resetting, Listening, Beginning, Sending, Transferring, Unheard, Answered,
     Phases
<1>5. Results /\ Registers
  BY DEF Results, Registers
<1> QED
  BY <1>2, <1>3, <1>4, <1>5 DEF CInv

\* and in every state after.
LEMMA Invariance == Spec => []CInv
<1>1. CInv /\ [Next]_vars => CInv'
  <2> SUFFICES ASSUME CInv, [Next]_vars PROVE CInv'
    OBVIOUS
  <2>1. CASE UNCHANGED vars
    <3> USE <2>1 DEF vars, device, caller, radio, CInv, At
    <3>1. ssi!TypeOK' /\ Places' /\ Results' /\ Registers' /\ Progress'
      BY DEF ssi!TypeOK, Places, Last, Results, Registers, Progress
    <3>2. /\ (Sending' <=> Sending) /\ (Transferring' <=> Transferring) /\ (Beginning' <=> Beginning)
          /\ (Unheard' <=> Unheard) /\ (Answered' <=> Answered) /\ Byte' = Byte
      BY DEF Sending, Transferring, Beginning, Unheard, Answered, Byte
    <3>3. Using' /\ Bytewise'
      BY <3>2 DEF Using, Bytewise
    <3>4. Connected' /\ Resetting' /\ Listening'
      BY <3>2 DEF Connected, Resetting, Listening
    <3> QED
      BY <3>1, <3>3, <3>4
  <2>2. CASE Step
    BY <2>2, EndCallKeeps, BootKeeps, ChipSelectKeeps, PollKeeps, WaitKeeps, SendWriteKeeps,
       SendReadKeeps, TransferKeeps, TransceiveEndKeeps DEF Step
  <2>3. CASE Shift
    <3>1. pc[main] = "send" \/ pc[main] = "wait"
      BY <2>3, ShiftReaches DEF Shift
    <3> QED
      BY <2>3, <3>1, ShiftSends, ShiftTransfers
  <2>4. CASE Device \/ Isr \/ TimerEnter
    BY <2>4, FillKeeps, SourceFailsKeeps, DrainKeeps, ReceiveTimeoutKeeps, HandlersKeep
       DEF Device, ReadSource, Isr, TimerEnter
  <2> QED
    BY <2>1, <2>2, <2>3, <2>4, CallKeeps, RadioReadyKeeps DEF Next
<1> QED
  BY <1>1, InitInvariant, PTL DEF Spec

\* Each variable keeps its type, for any configuration, FIFOs and limit of the polls.
THEOREM TypeCorrect == Spec => []TypeOK
<1>1. CInv => TypeOK
  BY DEF CInv, TypeOK, Places, Connected, Resetting, Listening, Results, Registers, Operations, Program
<1> QED
  BY <1>1, Invariance, PTL

\* reset() returns true only for a radio that heard its strobe and became ready after
\* it, whichever of its polls ran out and whenever the radio becomes ready.
THEOREM ResetIsTrue == Spec => ResetTrueIsReady
<1>1. CInv /\ [Next]_vars => [EndCall /\ op = "reset" /\ ok => heard /\ ready]_vars
  <2> SUFFICES ASSUME CInv, EndCall, op = "reset", ok PROVE heard /\ ready
    OBVIOUS
  <2>1. ip = 9
    BY EndPlace DEF Last
  <2> QED
    BY <2>1 DEF CInv, Resetting
<1> QED
  BY <1>1, Invariance, PTL DEF Spec, ResetTrueIsReady

\* part_number() returns the register's byte, for any size of the FIFOs and whatever
\* calls and transfers came before.
THEOREM ReadsRegister == Spec => PartNumberIsRead
<1>1. CInv /\ [Next]_vars => [EndCall /\ op = "part_number" => value = CHIP_CC1201]_vars
  <2> SUFFICES ASSUME CInv, EndCall, op = "part_number" PROVE value = CHIP_CC1201
    OBVIOUS
  <2>1. ip = 8
    BY EndPlace DEF Last
  <2> QED
    BY <2>1 DEF CInv, Results
<1> QED
  BY <1>1, Invariance, PTL DEF Spec, PartNumberIsRead

\* burst_write() returns 1 only for a table that is written whole, and 0 with each
\* register its own value or cleared: for any length of the table, also when its
\* source can be read nowhere or not to its end.
THEOREM BurstIsComplete == Spec => BurstIsWritten
<1>1. ASSUME CInv, TransceiveEnd
      PROVE  /\ ssi!ReturnTrue(main) => regs = [i \in 1..N |-> i]
             /\ \A i \in 1..N : regs[i] \in {0, i}
  <2>1. regs \in [1..N -> 0..N] /\ \A i \in 1..N : regs[i] \in {0, i}
    BY <1>1 DEF CInv, Registers
  <2>2. ASSUME ssi!ReturnTrue(main) PROVE regs = [i \in 1..N |-> i]
    <3>1. pc[main] = "wait" /\ sem = 1
      BY <2>2 DEF ssi!ReturnTrue, ssi!Return
    <3>2. pointer = N + 1
      BY <1>1, <3>1, TransferEnds
    <3>3. \A i \in 1..N : regs[i] = i
      BY <1>1, <3>1, <3>2, CcxConfiguration DEF CInv, Progress
    <3> QED
      BY <2>1, <3>3
  <2> QED
    BY <2>1, <2>2
<1>2. CInv /\ [Next]_vars =>
        [TransceiveEnd =>
           /\ ssi!ReturnTrue(main) => regs = [i \in 1..N |-> i]
           /\ \A i \in 1..N : regs[i] \in {0, i}]_vars
  BY <1>1
<1> QED
  BY <1>2, Invariance, PTL DEF Spec, BurstIsWritten

\* No byte goes to a radio that is not selected, or not ready unless it is reset.
THEOREM ReachesRadio == Spec => BytesReachTheRadio
<1>1. CInv /\ [Next]_vars => [Shift => selected /\ (op = "reset" \/ ready)]_vars
  <2> SUFFICES ASSUME CInv, Shift PROVE selected /\ (op = "reset" \/ ready)
    OBVIOUS
  <2> QED
    BY ShiftReaches DEF Shift
<1> QED
  BY <1>1, Invariance, PTL DEF Spec, BytesReachTheRadio

-----------------------------------------------------------------------------
(* The controller's flash, which its uDMA cannot read *)

NothingSent == pc[main] = "wait" => txf = <<>>

\* Where no byte can be read from the flash, none gets into the transmit FIFO.
LEMMA NothingIsSent ==
  ASSUME "byte" \notin FlashReads, CInv, NothingSent, [Next]_vars
  PROVE  NothingSent'
<1> USE DEF NothingSent, device, caller, radio, vars, ssi!taskVars, ssi!fifoVars, ssi!dmaVars
<1>1. CASE UNCHANGED <<pc, txf>>
  BY <1>1
<1>2. CASE SendWrite \/ SendRead \/ Transceive \/ TransceiveEnd
  <2>1. pc \in [{main} -> {"idle", "lock", "start", "wait", "send"}]
    BY DEF CInv, ssi!TypeOK
  <2>2. pc'[main] # "wait"
    BY <1>2, <2>1 DEF SendWrite, SendRead, Transceive, TransceiveEnd, ssi!SendWrite, ssi!SendRead,
       ssi!Transceive, ssi!ReturnTrue, ssi!ReturnFalse, ssi!Return, ssi!Goto
  <2> QED
    BY <2>2
<1>3. CASE ssi!TakeLock(main)
  <2>1. pc \in [{main} -> {"idle", "lock", "start", "wait", "send"}]
    BY DEF CInv, ssi!TypeOK
  <2> QED
    BY <1>3, <2>1 DEF ssi!TakeLock, ssi!Goto
<1>4. CASE ssi!Start(main)
  BY <1>4 DEF ssi!Start, CInv, Using
<1>5. CASE Shift
  <2>1. pc[main] # "wait" /\ pc' = pc
    BY <1>5 DEF Shift, ssi!ShiftAnswer
  <2> QED
    BY <2>1
<1>6. CASE ReadSource
  <2>1. Instruction[2] = "flash"
    BY <1>6, Instructions DEF ReadSource, CInv
  <2>2. ssi!ChannelFails("tx")
    BY <1>6, <2>1 DEF ReadSource, Reads
  <2> QED
    BY <2>2 DEF ssi!ChannelFails
<1>7. CASE ssi!Drain \/ ssi!ReceiveTimeout \/ Isr \/ TimerEnter
  BY <1>7 DEF ssi!Drain, ssi!ReceiveTimeout, Isr, TimerEnter, ssi!Isr, ssi!SsiEnter, ssi!SsiBody,
     ssi!TimerEnter, ssi!TimerBody
<1>8. CASE EndCall \/ set_mode_input \/ ssi_dev \/ ChipSelect \/ PollAgain \/ PollEnd \/ Wait
           \/ RadioReady \/ \E o \in Operations : Call(o)
  BY <1>8 DEF EndCall, set_mode_input, ssi_dev, ChipSelect, PollAgain, PollEnd, Wait, RadioReady, Call
<1> QED
  BY <1>1, <1>2, <1>3, <1>4, <1>5, <1>6, <1>7, <1>8 DEF Next, Step, Device

\* A burst's header alone writes no register, and only bytes that are shifted out do.
LEMMA RegistersRest ==
  ASSUME CInv, NothingSent, [Next]_vars, op = "configure"
  PROVE  UNCHANGED regs
<1> USE DEF vars, device, caller, radio, CInv
<1>1. CASE Shift
  <2>1. pc[main] = "send"
    BY <1>1, ShiftReaches DEF Shift, NothingSent
  <2>2. txf = <<Byte>> /\ Byte = BurstWrite /\ Sending
    BY <1>1, <2>1 DEF Shift, Bytewise, Using, Byte, At
  <2>3. phase = "header"
    BY <2>1, <2>2 DEF Listening, Unheard
  <2>4. Head(txf) = BurstWrite /\ BurstWrite # SRES
    BY <2>2 DEF BurstWrite, SRES
  <2>5. Hear(BurstWrite) \/ UNCHANGED regs
    BY <1>1, <2>4 DEF Shift
  <2> QED
    BY <2>3, <2>4, <2>5 DEF Hear
<1>2. CASE ~Shift
  BY <1>2 DEF Next, Step, EndCall, set_mode_input, ssi_dev, ChipSelect, PollAgain, PollEnd, Wait,
     SendWrite, SendRead, Transceive, TransceiveEnd, Device, Isr, TimerEnter, RadioReady, Call
<1> QED
  BY <1>1, <1>2

\* On the controller of this code, whose uDMA ends the read of a flash address in a bus
\* error, configure() writes no register of the radio: the transfer that burst_write()
\* starts is given up before its first byte, and the result is not asked for.
THEOREM NothingFromFlash ==
  ASSUME FlashReads = {"error"}
  PROVE  Spec => [][op = "configure" => UNCHANGED regs]_vars
<1>1. Init => NothingSent
  BY DEF Init, ssi!Init, NothingSent
<1>2. CInv /\ NothingSent /\ [Next]_vars => NothingSent'
  BY NothingIsSent
<1>3. CInv /\ NothingSent /\ [Next]_vars => [op = "configure" => UNCHANGED regs]_vars
  BY RegistersRest
<1> QED
  BY <1>1, <1>2, <1>3, Invariance, PTL DEF Spec
=============================================================================
