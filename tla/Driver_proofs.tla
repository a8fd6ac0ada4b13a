---------------------------- MODULE Driver_proofs ----------------------------
(***************************************************************************)
(* Theorems about the driver, for any command line: what main leaves on    *)
(* disk, what it links, and that it passes over no input.                  *)
(***************************************************************************)
EXTENDS Driver, SequenceTheorems, TLAPS

InputSet == [kind : Kinds \ {"missing"}, name : Names]

\* The command line, which never changes.
ArgsOK == args \in [files : Files, string : {"no"} \union (Kinds \ {"missing"}),
                    out : {OutName, NoOut}, noCode : BOOLEAN, compileWith : Modes]

\* What the loop has done with input k.
Done(k) ==
  IF inputs[k].kind = "valid"
    THEN args.compileWith # "none" => <<inputs[k].name, ".o">> \in DOMAIN disk
    ELSE k \in reported

\* An object is of an input with its name, and of the last one so far.
Newest ==
  args.compileWith # "none" =>
    \A f \in DOMAIN disk : f[2] = ".o" =>
      /\ inputs[disk[f]].name = f[1]
      /\ \A k \in 1..(next - 1) :
            inputs[k].kind = "valid" /\ inputs[k].name = f[1] => k <= disk[f]

\* The invariant of the loop: before it nothing was written; inputs before next are
\* done with, and while isValid holds they were all valid.
LoopInv ==
  /\ pc = "start" => /\ next = 1 /\ DOMAIN disk = {} /\ linked = <<>>
                     /\ reported = {} /\ exit = "running"
  /\ pc = "loop" => exit = "running" /\ linked = <<>>
  /\ \A f \in DOMAIN disk : disk[f] \in DOMAIN inputs
  /\ pc = "loop" => \A k \in 1..(next - 1) :
        Done(k) /\ (isValid => inputs[k].kind = "valid")

DriverInv == /\ ArgsOK /\ TypeOK /\ LoopInv /\ Newest
             /\ OutputsAreValid /\ LinksWhatItCompiled /\ LinksNewest /\ EveryInputDealtWith

-----------------------------------------------------------------------------
LEMMA InitDriver == Init => DriverInv
<1>1. SUFFICES ASSUME Init PROVE DriverInv
  OBVIOUS
<1>2. DOMAIN disk = {}
  BY <1>1 DEF Init
<1>3. TypeOK
  BY <1>1, <1>2 DEF Init, TypeOK
<1>4. QED
  BY <1>1, <1>2, <1>3
     DEF Init, DriverInv, ArgsOK, LoopInv, OutputsAreValid, LinksWhatItCompiled, LinksNewest,
         Newest, EveryInputDealtWith

\* The inputs made from the command line are a sequence of inputs that exist.
LEMMA InputsPrepared ==
  ASSUME ArgsOK, TypeOK, LoopInv, prepareInputs, pc' = "loop"
  PROVE  inputs' \in Seq(InputSet)
<1>1. CASE args.files # <<>>
  <2>1. inputs' = [k \in DOMAIN args.files |->
                     [kind |-> args.files[k].kind, name |-> outputName(k)]]
    BY <1>1 DEF prepareInputs, Exits
  <2>2. PICK n \in 0..MaxFiles : args.files \in [1..n -> [path : Paths, kind : Kinds]]
    BY DEF ArgsOK, Files
  <2>3. DOMAIN args.files = 1..n /\ n \in Nat
    BY <2>2, MaxFilesAssumption
  <2>4. ASSUME NEW k \in 1..n
        PROVE  [kind |-> args.files[k].kind, name |-> outputName(k)] \in InputSet
    <3>1. args.files[k].kind # "missing"
      BY <2>3 DEF prepareInputs, Exits
    <3>2. outputName(k) \in Names
      BY <2>2 DEF outputName, Names, ArgsOK, useOutputFileName
    <3>3. args.files[k].kind \in Kinds
      BY <2>2
    <3>4. QED
      BY <3>1, <3>2, <3>3 DEF InputSet
  <2>5. inputs' \in [1..n -> InputSet]
    BY <2>1, <2>3, <2>4
  <2>6. QED
    BY <2>3, <2>5
<1>2. CASE args.files = <<>>
  <2>1. inputs' = <<[kind |-> args.string, name |-> args.out]>>
    BY <1>2 DEF prepareInputs, Exits
  <2>2. args.string \in Kinds \ {"missing"}
    BY <1>2 DEF prepareInputs, Exits, ArgsOK
  <2>3. [kind |-> args.string, name |-> args.out] \in InputSet
    BY <2>2 DEF InputSet, Names, ArgsOK
  <2>4. QED
    BY <2>1, <2>3
<1>3. QED
  BY <1>1, <1>2

LEMMA PrepareKeeps == DriverInv /\ prepareInputs => DriverInv'
<1>1. SUFFICES ASSUME DriverInv, prepareInputs PROVE DriverInv'
  OBVIOUS
<1>2. next = 1 /\ DOMAIN disk = {} /\ linked = <<>> /\ pc = "start" /\ exit = "running"
  BY <1>1 DEF DriverInv, LoopInv, prepareInputs
<1>3. UNCHANGED <<args, next, isValid, disk, reported, linked>>
  BY <1>1 DEF prepareInputs
<1>4. CASE pc' = "loop" /\ UNCHANGED exit
  <2>1. inputs' \in Seq(InputSet)
    BY <1>1, <1>4, InputsPrepared DEF DriverInv
  <2>2. Len(inputs') \in Nat
    BY <2>1
  <2>3. TypeOK'
    BY <1>1, <1>2, <1>3, <1>4, <2>1, <2>2 DEF DriverInv, TypeOK, LoopInv, InputSet
  <2>4. LoopInv'
    BY <1>1, <1>2, <1>3, <1>4 DEF LoopInv
  <2>5. QED
    BY <1>1, <1>2, <1>3, <1>4, <2>3, <2>4
       DEF DriverInv, ArgsOK, OutputsAreValid, LinksWhatItCompiled, LinksNewest, Newest,
         EveryInputDealtWith
<1>5. CASE pc' = "exited" /\ exit' = "-1" /\ UNCHANGED inputs
  BY <1>1, <1>2, <1>3, <1>5
     DEF DriverInv, ArgsOK, TypeOK, LoopInv, OutputsAreValid, LinksWhatItCompiled, LinksNewest,
         Newest, EveryInputDealtWith, Done
<1>6. QED
  BY <1>1, <1>4, <1>5 DEF prepareInputs, Exits

-----------------------------------------------------------------------------
(* The loop.                                                                  *)

\* An input of a kind is there, and every earlier one is done with.
LEMMA AtInputFacts ==
  ASSUME DriverInv, NEW kind, AtInput(kind)
  PROVE  /\ pc = "loop" /\ exit = "running" /\ linked = <<>>
         /\ Len(inputs) \in Nat /\ next \in 1..Len(inputs)
         /\ DOMAIN inputs = 1..Len(inputs)
         /\ Input \in InputSet /\ Input.kind = kind
<1>1. inputs \in Seq(InputSet) /\ next \in 1..(Len(inputs) + 1)
  BY DEF DriverInv, TypeOK, InputSet
<1>2. Len(inputs) \in Nat /\ DOMAIN inputs = 1..Len(inputs) /\ next \in 1..Len(inputs)
  BY <1>1 DEF AtInput
<1>3. Input \in InputSet
  BY <1>1, <1>2 DEF Input
<1>4. QED
  BY <1>2, <1>3 DEF AtInput, DriverInv, LoopInv

LEMMA SyntaxKeeps == DriverInv /\ syntaxErrors => DriverInv'
<1>1. SUFFICES ASSUME DriverInv, syntaxErrors PROVE DriverInv'
  OBVIOUS
<1>2. AtInput("syntax")
  BY <1>1 DEF syntaxErrors
<1>3. /\ pc = "loop" /\ exit = "running" /\ linked = <<>>
      /\ Len(inputs) \in Nat /\ next \in 1..Len(inputs)
  BY <1>1, <1>2, AtInputFacts
<1>4. /\ UNCHANGED <<args, inputs, next, disk, linked>>
      /\ pc' = "exited" /\ exit' = "-1" /\ isValid' = FALSE
      /\ reported' = reported \union {next}
  BY <1>1 DEF syntaxErrors, Exits, Reports
<1>5. QED
  BY <1>1, <1>3, <1>4
     DEF DriverInv, ArgsOK, TypeOK, LoopInv, OutputsAreValid, LinksWhatItCompiled, LinksNewest,
         Newest, EveryInputDealtWith

\* An input with errors is reported and left behind.
LEMMA ContinuesKeeps ==
  ASSUME DriverInv, NEW kind, kind # "valid", AtInput(kind), Continues
  PROVE  DriverInv'
<1>1. /\ pc = "loop" /\ exit = "running" /\ linked = <<>>
      /\ Len(inputs) \in Nat /\ next \in 1..Len(inputs)
      /\ Input.kind = kind
  BY AtInputFacts
<1>2. /\ UNCHANGED <<args, pc, inputs, disk, linked, exit>>
      /\ isValid' = FALSE /\ next' = next + 1
      /\ reported' = reported \union {next}
  BY DEF Continues, Reports
<1>3. ASSUME NEW k \in 1..(next' - 1)
      PROVE  Done(k)'
  <2>1. CASE k = next
    BY <1>1, <1>2, <2>1 DEF Done, Input
  <2>2. CASE k \in 1..(next - 1)
    BY <1>1, <1>2, <2>2 DEF Done, DriverInv, LoopInv
  <2>3. QED
    BY <1>1, <1>2, <2>1, <2>2
<1>4. LoopInv'
  BY <1>1, <1>2, <1>3 DEF DriverInv, LoopInv
<1>5. TypeOK'
  <2>1. TypeOK
    BY DEF DriverInv
  <2>2. next' \in 1..(Len(inputs) + 1) /\ reported' \subseteq 1..Len(inputs)
    BY <1>1, <1>2, <2>1 DEF TypeOK
  <2>3. QED
    BY <1>2, <2>1, <2>2 DEF TypeOK
<1>6. Newest'
  <2>1. \A k \in 1..(next' - 1) : k \in 1..(next - 1) \/ (k = next /\ inputs[k].kind # "valid")
    BY <1>1, <1>2 DEF Input
  <2>2. Newest
    BY DEF DriverInv
  <2>3. QED
    BY <1>2, <2>1, <2>2 DEF Newest
<1>7. QED
  BY <1>1, <1>2, <1>4, <1>5, <1>6
     DEF DriverInv, ArgsOK, OutputsAreValid, LinksWhatItCompiled, LinksNewest, Newest,
         EveryInputDealtWith

\* What is on disk after a valid input wrote some of its files.
LEMMA WriteFacts ==
  ASSUME NEW d, NEW ext
  PROVE  /\ DOMAIN Write(d, ext) = DOMAIN d \union {<<Input.name, ext>>}
         /\ \A f \in DOMAIN Write(d, ext) :
               IF f = <<Input.name, ext>> THEN Write(d, ext)[f] = next
                                          ELSE f \in DOMAIN d /\ Write(d, ext)[f] = d[f]
BY DEF Write

\* d holds what is on disk now and files of the input the loop is at.
Extends(d) ==
  /\ DOMAIN disk \subseteq DOMAIN d
  /\ \A f \in DOMAIN d : \/ d[f] = next /\ f[1] = Input.name
                         \/ f \in DOMAIN disk /\ d[f] = disk[f]
  /\ DOMAIN d \subseteq Names \X {".ll", ".o"}

LEMMA WriteExtends ==
  ASSUME NEW d, Extends(d), NEW ext \in {".ll", ".o"}, Input \in InputSet
  PROVE  Extends(Write(d, ext))
<1>1. <<Input.name, ext>> \in Names \X {".ll", ".o"}
  BY DEF InputSet
<1> DEFINE w == Write(d, ext)
<1>2. /\ DOMAIN w = DOMAIN d \union {<<Input.name, ext>>}
      /\ \A f \in DOMAIN w : IF f = <<Input.name, ext>> THEN w[f] = next
                                                       ELSE f \in DOMAIN d /\ w[f] = d[f]
  BY WriteFacts
<1> HIDE DEF w
<1>3. Extends(w)
  BY <1>1, <1>2 DEF Extends
<1>4. QED
  BY <1>3 DEF w

LEMMA PrintExtends ==
  ASSUME DriverInv, Input \in InputSet, NEW d \in printIR(disk)
  PROVE  Extends(d)
<1>1. Extends(disk)
  BY DEF Extends, DriverInv, TypeOK
<1>2. Extends(Write(disk, ".ll"))
  BY <1>1, WriteExtends
<1>3. QED
  BY <1>1, <1>2 DEF printIR

\* The objects are still of the last inputs when files of the one the loop is at were
\* written; its own object too, if it was.
LEMMA ExtendsNewest ==
  ASSUME DriverInv, AtInput("valid"), NEW d, Extends(d), args.compileWith # "none",
         NEW n \in {next - 1, next},
         n = next => <<Input.name, ".o">> \in DOMAIN d /\ d[<<Input.name, ".o">>] = next,
         NEW f \in DOMAIN d, f[2] = ".o"
  PROVE  /\ inputs[d[f]].name = f[1]
         /\ \A k \in 1..n : inputs[k].kind = "valid" /\ inputs[k].name = f[1] => k <= d[f]
<1>1. /\ Len(inputs) \in Nat /\ next \in 1..Len(inputs) /\ DOMAIN inputs = 1..Len(inputs)
      /\ Input \in InputSet
  BY AtInputFacts
<1>2. f \in Names \X {".ll", ".o"}
  BY DEF Extends
<1>3. f = <<f[1], ".o">>
  BY <1>2
<1>4. CASE d[f] = next /\ f[1] = Input.name
  <2>1. \A k \in 1..n : k <= next
    BY <1>1
  <2>2. QED
    BY <1>4, <2>1 DEF Input
<1>5. CASE ~ (d[f] = next /\ f[1] = Input.name)
  <2>1. f \in DOMAIN disk /\ d[f] = disk[f]
    BY <1>5 DEF Extends
  <2>2. /\ inputs[d[f]].name = f[1]
        /\ \A k \in 1..(next - 1) :
              inputs[k].kind = "valid" /\ inputs[k].name = f[1] => k <= d[f]
    BY <2>1 DEF DriverInv, Newest
  <2>3. n = next => f[1] # Input.name
    BY <1>3, <1>5
  <2>4. \A k \in 1..n : k \in 1..(next - 1) \/ (k = next /\ n = next)
    BY <1>1
  <2>5. QED
    BY <2>2, <2>3, <2>4 DEF Input
<1>6. QED
  BY <1>4, <1>5

LEMMA EmitKeeps == DriverInv /\ emit => DriverInv'
<1>1. SUFFICES ASSUME DriverInv, emit PROVE DriverInv'
  OBVIOUS
<1>2. AtInput("valid")
  BY <1>1 DEF emit
<1>3. /\ pc = "loop" /\ exit = "running" /\ linked = <<>>
      /\ Len(inputs) \in Nat /\ next \in 1..Len(inputs)
      /\ DOMAIN inputs = 1..Len(inputs)
      /\ Input \in InputSet /\ Input.kind = "valid"
  BY <1>1, <1>2, AtInputFacts
<1>4. UNCHANGED <<args, pc, inputs, isValid, reported, linked, exit>> /\ next' = next + 1
  BY <1>1 DEF emit
<1>5. PICK d \in printIR(disk) :
        disk' = IF args.compileWith = "none" THEN d ELSE Write(d, ".o")
  BY <1>1 DEF emit
<1>6. Extends(disk')
  BY <1>1, <1>3, <1>5, PrintExtends, WriteExtends
<1>7. args.compileWith # "none" => <<Input.name, ".o">> \in DOMAIN disk'
  <2>1. SUFFICES ASSUME args.compileWith # "none" PROVE <<Input.name, ".o">> \in DOMAIN disk'
    OBVIOUS
  <2>2. disk' = Write(d, ".o")
    BY <1>5, <2>1
  <2>3. DOMAIN Write(d, ".o") = DOMAIN d \union {<<Input.name, ".o">>}
    BY WriteFacts
  <2>4. QED
    BY <2>2, <2>3
<1>8. ASSUME NEW f \in DOMAIN disk'
      PROVE  disk'[f] \in DOMAIN inputs /\ inputs[disk'[f]].kind = "valid"
  BY <1>1, <1>3, <1>6 DEF Extends, DriverInv, LoopInv, OutputsAreValid, Input
<1>9. ASSUME NEW k \in 1..(next' - 1)
      PROVE  Done(k)' /\ (isValid' => inputs'[k].kind = "valid")
  <2>1. CASE k = next
    BY <1>3, <1>4, <1>7, <2>1 DEF Done, Input
  <2>2. CASE k \in 1..(next - 1)
    BY <1>1, <1>3, <1>4, <1>6, <2>2 DEF Done, Extends, DriverInv, LoopInv
  <2>3. QED
    BY <1>3, <1>4, <2>1, <2>2
<1>10. LoopInv'
  BY <1>3, <1>4, <1>8, <1>9 DEF LoopInv
<1>11. TypeOK'
  BY <1>1, <1>3, <1>4, <1>6 DEF DriverInv, TypeOK, Extends
<1>12. Newest'
  <2>1. SUFFICES ASSUME args.compileWith # "none", NEW f \in DOMAIN disk', f[2] = ".o"
                 PROVE  /\ inputs[disk'[f]].name = f[1]
                        /\ \A k \in 1..next :
                              inputs[k].kind = "valid" /\ inputs[k].name = f[1] => k <= disk'[f]
    <3>1. next' - 1 = next
      BY <1>3, <1>4
    <3>2. QED
      BY <1>4, <3>1 DEF Newest
  <2>2. disk' = Write(d, ".o")
    BY <1>5, <2>1
  <2>3. <<Input.name, ".o">> \in DOMAIN disk' /\ disk'[<<Input.name, ".o">>] = next
    BY <2>2, WriteFacts
  <2>4. QED
    BY <1>1, <1>2, <1>6, <2>1, <2>3, ExtendsNewest
<1>13. QED
  BY <1>1, <1>3, <1>4, <1>8, <1>10, <1>11, <1>12
     DEF DriverInv, ArgsOK, OutputsAreValid, LinksWhatItCompiled, LinksNewest, Newest,
         EveryInputDealtWith

LEMMA EmitFailsKeeps == DriverInv /\ emitFails => DriverInv'
<1>1. SUFFICES ASSUME DriverInv, emitFails PROVE DriverInv'
  OBVIOUS
<1>2. AtInput("valid")
  BY <1>1 DEF emitFails
<1>3. /\ linked = <<>> /\ Len(inputs) \in Nat /\ next \in 1..Len(inputs)
      /\ DOMAIN inputs = 1..Len(inputs)
      /\ Input \in InputSet /\ Input.kind = "valid"
  BY <1>1, <1>2, AtInputFacts
<1>4. /\ UNCHANGED <<args, inputs, next, isValid, reported, linked>>
      /\ pc' = "exited" /\ exit' = "1"
  BY <1>1 DEF emitFails, Exits
<1>5. PICK d \in printIR(disk) : disk' \in {d, Write(d, ".o")}
  BY <1>1 DEF emitFails
<1>6. Extends(disk')
  BY <1>1, <1>3, <1>5, PrintExtends, WriteExtends
<1>7. ASSUME NEW f \in DOMAIN disk'
      PROVE  disk'[f] \in DOMAIN inputs /\ inputs[disk'[f]].kind = "valid"
  BY <1>1, <1>3, <1>6 DEF Extends, DriverInv, LoopInv, OutputsAreValid, Input
<1>8. TypeOK'
  BY <1>1, <1>3, <1>4, <1>6 DEF DriverInv, TypeOK, Extends
<1>9. Newest'
  <2>1. SUFFICES ASSUME args.compileWith # "none", NEW f \in DOMAIN disk', f[2] = ".o"
                 PROVE  /\ inputs[disk'[f]].name = f[1]
                        /\ \A k \in 1..(next - 1) :
                              inputs[k].kind = "valid" /\ inputs[k].name = f[1] => k <= disk'[f]
    BY <1>4 DEF Newest
  <2>2. next - 1 \in {next - 1, next} /\ next - 1 # next
    BY <1>3
  <2>3. QED
    BY <1>1, <1>2, <1>6, <2>1, <2>2, ExtendsNewest
<1>10. QED
  BY <1>1, <1>3, <1>4, <1>7, <1>8, <1>9
     DEF DriverInv, ArgsOK, LoopInv, OutputsAreValid, LinksWhatItCompiled, LinksNewest,
         Newest, EveryInputDealtWith

\* When the loop has ended every input is done with.
LEMMA LinkActionKeeps == DriverInv /\ link => DriverInv'
<1>1. SUFFICES ASSUME DriverInv, link PROVE DriverInv'
  OBVIOUS
<1>2. inputs \in Seq(InputSet) /\ next = Len(inputs) + 1 /\ pc = "loop"
  BY <1>1 DEF DriverInv, TypeOK, InputSet, link
<1>3. Len(inputs) \in Nat /\ DOMAIN inputs = 1..Len(inputs)
  BY <1>2
<1>4. /\ UNCHANGED <<args, inputs, next, isValid, disk, reported>>
      /\ pc' = "exited" /\ exit' = "0"
  BY <1>1 DEF link, Exits
<1>5. \A k \in DOMAIN inputs : Done(k) /\ (isValid => inputs[k].kind = "valid")
  BY <1>1, <1>2, <1>3 DEF DriverInv, LoopInv
<1>6. LinksWhatItCompiled' /\ linked' \in Seq(Names \X {".o"})
  <2>1. CASE isValid /\ args.compileWith # "none"
    <3>1. linked' = [k \in DOMAIN inputs |-> <<inputs[k].name, ".o">>]
      BY <1>1, <2>1 DEF link
    <3>2. ASSUME NEW k \in DOMAIN inputs
          PROVE  <<inputs[k].name, ".o">> \in Names \X {".o"}
      <4>1. inputs[k] \in InputSet
        BY <1>2, <1>3
      <4>2. inputs[k].name \in Names
        BY <4>1 DEF InputSet
      <4>3. QED
        BY <4>2
    <3>3. linked' \in [1..Len(inputs) -> Names \X {".o"}]
      BY <1>3, <3>1, <3>2
    <3>4. linked' \in Seq(Names \X {".o"})
      BY <1>3, <3>3
    <3>5. QED
      BY <1>4, <1>5, <2>1, <3>1, <3>4 DEF LinksWhatItCompiled, Done
  <2>2. CASE ~ (isValid /\ args.compileWith # "none")
    BY <1>1, <1>4, <2>2 DEF link, DriverInv, TypeOK, LinksWhatItCompiled
  <2>3. QED
    BY <2>1, <2>2
<1>7. EveryInputDealtWith'
  BY <1>4, <1>5 DEF EveryInputDealtWith, Done
<1>8. Newest' /\ LinksNewest'
  <2>1. Newest /\ next - 1 = Len(inputs)
    BY <1>1, <1>2, <1>3 DEF DriverInv
  <2>2. Newest'
    BY <1>4, <2>1 DEF Newest
  <2>3. CASE isValid /\ args.compileWith # "none"
    <3>1. linked' = [k \in DOMAIN inputs |-> <<inputs[k].name, ".o">>]
      BY <1>1, <2>3 DEF link
    <3>2. ASSUME NEW k \in DOMAIN inputs
          PROVE  /\ inputs[disk[<<inputs[k].name, ".o">>]].name = inputs[k].name
                 /\ \A j \in DOMAIN inputs : inputs[j].name = inputs[k].name =>
                       j <= disk[<<inputs[k].name, ".o">>]
      <4>1. inputs[k].kind = "valid" /\ <<inputs[k].name, ".o">> \in DOMAIN disk
        BY <1>5, <2>3 DEF Done
      <4>2. \A j \in DOMAIN inputs : inputs[j].kind = "valid" /\ j \in 1..(next - 1)
        BY <1>3, <1>5, <2>1, <2>3
      <4>3. QED
        BY <2>1, <2>3, <4>1, <4>2 DEF Newest
    <3>3. /\ DOMAIN linked' = DOMAIN inputs
          /\ \A k \in DOMAIN inputs : linked'[k] = <<inputs[k].name, ".o">>
      BY <3>1
    <3>4. QED
      BY <1>4, <2>2, <3>2, <3>3 DEF LinksNewest
  <2>4. CASE ~ (isValid /\ args.compileWith # "none")
    <3>1. linked' = linked /\ disk' = disk /\ inputs' = inputs
      BY <1>1, <1>4, <2>4 DEF link
    <3>2. LinksNewest
      BY <1>1 DEF DriverInv
    <3>3. QED
      BY <2>2, <3>1, <3>2 DEF LinksNewest
  <2>5. QED
    BY <2>2, <2>3, <2>4
<1>9. QED
  BY <1>1, <1>4, <1>6, <1>7, <1>8 DEF DriverInv, ArgsOK, TypeOK, LoopInv, OutputsAreValid

LEMMA LookupKeeps == DriverInv /\ lookupTarget => DriverInv'
BY DEF lookupTarget, Exits, DriverInv, ArgsOK, TypeOK, LoopInv, Done, OutputsAreValid,
       LinksWhatItCompiled, LinksNewest, Newest, EveryInputDealtWith

LEMMA StepDriver == DriverInv /\ [Next]_vars => DriverInv'
<1>1. SUFFICES ASSUME DriverInv, [Next]_vars PROVE DriverInv'
  OBVIOUS
<1>2. CASE prepareInputs
  BY <1>1, <1>2, PrepareKeeps
<1>3. CASE syntaxErrors
  BY <1>1, <1>3, SyntaxKeeps
<1>4. CASE semanticErrors
  BY <1>1, <1>4, ContinuesKeeps DEF semanticErrors
<1>5. CASE codegenErrors
  BY <1>1, <1>5, ContinuesKeeps DEF codegenErrors
<1>6. CASE emit
  BY <1>1, <1>6, EmitKeeps
<1>7. CASE emitFails
  BY <1>1, <1>7, EmitFailsKeeps
<1>8. CASE link
  BY <1>1, <1>8, LinkActionKeeps
<1>9. CASE lookupTarget
  BY <1>1, <1>9, LookupKeeps
<1>10. CASE UNCHANGED vars
  BY <1>1, <1>10
     DEF vars, DriverInv, ArgsOK, TypeOK, LoopInv, Done, OutputsAreValid,
         LinksWhatItCompiled, LinksNewest, Newest, EveryInputDealtWith
<1>11. QED
  BY <1>1, <1>2, <1>3, <1>4, <1>5, <1>6, <1>7, <1>8, <1>9, <1>10 DEF Next

-----------------------------------------------------------------------------
\* The state of main stays in its types: no missing file is ever an input, and the
\* loop does not run past the inputs.
THEOREM DriverTyped == Spec => []TypeOK
<1>1. DriverInv => TypeOK
  BY DEF DriverInv
<1>2. QED
  BY <1>1, InitDriver, StepDriver, PTL DEF Spec

\* Every file that main leaves behind, however it ends, is the output of an input
\* without errors.
THEOREM OutputsCorrect == Spec => []OutputsAreValid
<1>1. DriverInv => OutputsAreValid
  BY DEF DriverInv
<1>2. QED
  BY <1>1, InitDriver, StepDriver, PTL DEF Spec

\* An executable is made of the objects of this run, when no input had errors.
THEOREM LinkingCorrect == Spec => []LinksWhatItCompiled
<1>1. DriverInv => LinksWhatItCompiled
  BY DEF DriverInv
<1>2. QED
  BY <1>1, InitDriver, StepDriver, PTL DEF Spec

\* What the linker finds under a name was made of the last input that has it.
THEOREM LinkedIsNewest == Spec => []LinksNewest
<1>1. DriverInv => LinksNewest
  BY DEF DriverInv
<1>2. QED
  BY <1>1, InitDriver, StepDriver, PTL DEF Spec

\* When main returns 0, every input has its object or its errors were printed.
THEOREM InputsCorrect == Spec => []EveryInputDealtWith
<1>1. DriverInv => EveryInputDealtWith
  BY DEF DriverInv
<1>2. QED
  BY <1>1, InitDriver, StepDriver, PTL DEF Spec
=============================================================================
