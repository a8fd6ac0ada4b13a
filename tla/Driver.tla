-------------------------------- MODULE Driver --------------------------------
(***************************************************************************)
(* The compiler driver, main() of src/src/wplc.cpp: the loop over the      *)
(* input files, what a file with errors does to the others, which files    *)
(* are written for which flags, and when the linker runs.                  *)
(*                                                                         *)
(* What lexing, parsing, analysis and code generation find in a file is    *)
(* its kind, fixed when the run begins.  Printing is left out.             *)
(***************************************************************************)
EXTENDS Integers, Sequences

CONSTANTS Paths,      \* input paths without their extension
          OutName,    \* the argument of -o
          NoOut,      \* no -o was given
          MaxFiles    \* bound on input files

ASSUME NamesAssumption == OutName \notin Paths /\ NoOut \notin Paths \union {OutName}
ASSUME MaxFilesAssumption == MaxFiles \in Nat \ {0}

Kinds == {"missing", "syntax", "semantic", "codegen", "valid"}
Modes == {"none", "clang", "gcc"}

VARIABLES args,      \* the command line: paths and kinds of the inputs, flags
          pc,        \* where main is
          inputs,    \* the vector of inputs: kind, and name of the output
          next,      \* the input the loop is at
          isValid,
          disk,      \* the files written, <<name, extension>> -> input
          reported,  \* inputs whose errors were printed
          linked,    \* objects given to the linker, if it was run
          exit       \* exit status

vars == <<args, pc, inputs, next, isValid, disk, reported, linked, exit>>

Files == UNION {[1..n -> [path : Paths, kind : Kinds]] : n \in 0..MaxFiles}

Init == /\ args \in [files : Files, string : {"no"} \union (Kinds \ {"missing"}),
                     out : {OutName, NoOut}, noCode : BOOLEAN, compileWith : Modes]
        /\ pc = "start"
        /\ inputs = <<>>
        /\ next = 1
        /\ isValid = TRUE
        /\ disk = <<>>
        /\ reported = {}
        /\ linked = <<>>
        /\ exit = "running"

Exits(status) == pc' = "exited" /\ exit' = status

-----------------------------------------------------------------------------
\* LLVM was built without the target of this machine.
lookupTarget ==
  /\ pc = "start"
  /\ Exits("1")
  /\ UNCHANGED <<args, inputs, next, isValid, disk, reported, linked>>

useOutputFileName == args.out # NoOut

\* The name given to the output of file k.  A name on the command line is for a
\* single input; a string takes it in any case.
outputName(k) ==
  IF Len(args.files) = 1 /\ useOutputFileName THEN args.out ELSE args.files[k].path

\* Mutant: files are not looked for.
prepareInputs_Unopened ==
  /\ pc = "start"
  /\ inputs' = [k \in DOMAIN args.files |->
                  [kind |-> args.files[k].kind, name |-> outputName(k)]]
  /\ pc' = "loop"
  /\ UNCHANGED <<args, next, isValid, disk, reported, linked, exit>>

\* Neither a file nor a string, or both, is refused; so is a file that cannot be
\* opened, before anything is compiled.
prepareInputs ==
  /\ pc = "start"
  /\ LET some == args.files # <<>>
         refused == \/ some = (args.string # "no")
                    \/ \E k \in DOMAIN args.files : args.files[k].kind = "missing"
     IN  IF refused
           THEN Exits("-1") /\ UNCHANGED inputs
           ELSE /\ inputs' = IF some
                     THEN [k \in DOMAIN args.files |->
                             [kind |-> args.files[k].kind, name |-> outputName(k)]]
                     ELSE <<[kind |-> args.string, name |-> args.out]>>
                /\ pc' = "loop" /\ UNCHANGED exit
  /\ UNCHANGED <<args, next, isValid, disk, reported, linked>>

Input == inputs[next]
AtInput(kind) == pc = "loop" /\ next <= Len(inputs) /\ Input.kind = kind
Reports == reported' = reported \union {next}

syntaxErrors ==
  /\ AtInput("syntax")
  /\ Reports
  /\ isValid' = FALSE
  /\ Exits("-1")
  /\ UNCHANGED <<args, inputs, next, disk, linked>>

\* Mutant: the errors are not printed.
Continues_Silently ==
  /\ isValid' = FALSE
  /\ next' = next + 1
  /\ UNCHANGED <<args, pc, inputs, disk, reported, linked, exit>>

\* Errors of either pass: go on with the next file.
Continues ==
  /\ Reports
  /\ isValid' = FALSE
  /\ next' = next + 1
  /\ UNCHANGED <<args, pc, inputs, disk, linked, exit>>

\* Mutant: a file that is there is taken to be up to date.
Write_KeepsOld(d, ext) ==
  [f \in DOMAIN d \union {<<Input.name, ext>>} |-> IF f \in DOMAIN d THEN d[f] ELSE next]

\* Files are created or overwritten.
Write(d, ext) ==
  [f \in DOMAIN d \union {<<Input.name, ext>>} |->
     IF f = <<Input.name, ext>> THEN next ELSE d[f]]

\* The error code of the stream for the IR is ignored; the file may be missing
\* afterwards.
printIR(d) == IF args.noCode THEN {d} ELSE {d, Write(d, ".ll")}

semanticErrors == AtInput("semantic") /\ Continues

\* Mutant: what was generated is written before the errors are looked at.
codegenErrors_Written ==
  /\ AtInput("codegen")
  /\ disk' \in printIR(disk)
  /\ Reports
  /\ isValid' = FALSE
  /\ next' = next + 1
  /\ UNCHANGED <<args, pc, inputs, linked, exit>>

codegenErrors == AtInput("codegen") /\ Continues

\* Valid: the IR, and the object when an executable is wanted.
emit ==
  /\ AtInput("valid")
  /\ \E d \in printIR(disk) :
        disk' = IF args.compileWith = "none" THEN d ELSE Write(d, ".o")
  /\ next' = next + 1
  /\ UNCHANGED <<args, pc, inputs, isValid, reported, linked, exit>>

\* The object file cannot be opened, or it is empty as the target cannot emit it.
emitFails ==
  /\ AtInput("valid") /\ args.compileWith # "none"
  /\ \E d \in printIR(disk) : disk' \in {d, Write(d, ".o")}
  /\ Exits("1")
  /\ UNCHANGED <<args, inputs, next, isValid, reported, linked>>

\* Mutant: an executable is made whatever was found (Journal.md, Nov 18).
link_Always ==
  /\ pc = "loop" /\ next > Len(inputs)
  /\ linked' = IF args.compileWith # "none"
                 THEN [k \in DOMAIN inputs |-> <<inputs[k].name, ".o">>]
                 ELSE linked
  /\ Exits("0")
  /\ UNCHANGED <<args, inputs, next, isValid, disk, reported>>

\* After the loop.  The status of the linker is not looked at.
link ==
  /\ pc = "loop" /\ next > Len(inputs)
  /\ linked' = IF isValid /\ args.compileWith # "none"
                 THEN [k \in DOMAIN inputs |-> <<inputs[k].name, ".o">>]
                 ELSE linked
  /\ Exits("0")
  /\ UNCHANGED <<args, inputs, next, isValid, disk, reported>>

Next == \/ lookupTarget \/ prepareInputs
        \/ syntaxErrors \/ semanticErrors \/ codegenErrors
        \/ emit \/ emitFails
        \/ link

Spec == Init /\ [][Next]_vars

-----------------------------------------------------------------------------
Names == Paths \union {OutName, NoOut}

TypeOK == /\ pc \in {"start", "loop", "exited"}
          /\ inputs \in Seq([kind : Kinds \ {"missing"}, name : Names])
          /\ next \in 1..(Len(inputs) + 1)
          /\ isValid \in BOOLEAN
          /\ DOMAIN disk \subseteq Names \X {".ll", ".o"}
          /\ reported \subseteq 1..Len(inputs)
          /\ linked \in Seq(Names \X {".o"})
          /\ exit \in {"running", "0", "1", "-1"}

\* Every file on disk is the output of an input without errors.
OutputsAreValid == \A f \in DOMAIN disk : inputs[disk[f]].kind = "valid"

\* The linker runs only when every input was compiled, and then each of its
\* objects was written in this run: an executable is never made of the objects of
\* some inputs, or of objects an earlier run left behind.
LinksWhatItCompiled ==
  linked # <<>> =>
    /\ \A k \in DOMAIN inputs : inputs[k].kind = "valid"
    /\ \A k \in DOMAIN linked : linked[k] \in DOMAIN disk

\* Inputs with the same name up to the extension overwrite each other's object.  What
\* the linker finds under a name was made of the last input that has it, also when
\* inputs of other names were compiled in between.
LinksNewest ==
  \A k \in DOMAIN linked :
     LET maker == disk[linked[k]]
     IN  /\ inputs[maker].name = inputs[k].name
         /\ \A j \in DOMAIN inputs : inputs[j].name = inputs[k].name => j <= maker

\* A run that returns 0 dealt with every input: those with errors were reported,
\* those without were compiled to an object if objects were wanted.  (Inputs that
\* share a name overwrite each other.)
EveryInputDealtWith ==
  exit = "0" =>
    \A k \in DOMAIN inputs :
       IF inputs[k].kind = "valid"
         THEN args.compileWith # "none" => <<inputs[k].name, ".o">> \in DOMAIN disk
         ELSE k \in reported
=============================================================================
