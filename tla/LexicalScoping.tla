--------------------------- MODULE LexicalScoping ---------------------------
(***************************************************************************)
(* What the symbol table of the compiler promises to the passes that use   *)
(* it: block structured scoping in which the body of a function is a       *)
(* fence.  A name is resolved to the innermost frame that declares it;     *)
(* what lies outside the innermost fence may be used only when it is a     *)
(* definition (function, enum, struct) or a global.                        *)
(*                                                                         *)
(* STManager.tla is the detailed specification, translated from            *)
(* src/src/symbol, and is shown to implement this one.                     *)
(***************************************************************************)
EXTENDS Integers, Sequences

CONSTANTS Ids,        \* names the program can declare
          Flags,      \* [isDefinition, isGlobal] combinations callers give symbols
          Absent,     \* "this frame does not declare the name"
          MaxScopes   \* bound on the number of frames ever opened

VARIABLES frames,     \* open frames, outermost first
          opened,     \* how many frames were ever opened
          answer      \* what the last operation returned

lexVars == <<frames, opened, answer>>

NoFrame == -1
Empty   == [x \in Ids |-> Absent]

Declares(i, x) == frames[i].binds[x] # Absent

\* A frame is reachable from the innermost one without leaving a function body.
SameBody(i) == \A j \in (i + 1)..Len(frames) : ~ frames[j].fenced

Usable(i, x) == \/ SameBody(i)
                \/ frames[i].binds[x].isDefinition
                \/ frames[i].binds[x].isGlobal

\* Frame i is the one that the name x is resolved to.
Innermost(i, x) == /\ i \in 1..Len(frames)
                   /\ Declares(i, x)
                   /\ \A j \in (i + 1)..Len(frames) : ~ Declares(j, x)

Resolves(i, x) == Innermost(i, x) /\ Usable(i, x)

LexInit == /\ frames = <<>>
           /\ opened = 0
           /\ answer = [op |-> "none"]

\* The outermost frame has nothing outside it to be fenced off from.
Open(isBody) ==
  /\ opened < MaxScopes
  /\ frames' = Append(frames, [id     |-> opened,
                               fenced |-> isBody /\ frames # <<>>,
                               binds  |-> Empty])
  /\ opened' = opened + 1
  /\ answer' = [op |-> "enter", scope |-> opened]

Close ==
  /\ IF frames = <<>>
       THEN /\ answer' = [op |-> "exit", scope |-> NoFrame]
            /\ UNCHANGED frames
       ELSE /\ answer' = [op |-> "exit", scope |-> frames[Len(frames)].id]
            /\ frames' = SubSeq(frames, 1, Len(frames) - 1)
  /\ UNCHANGED opened

\* Declaring a name twice in one frame is refused and changes nothing.
Declare(x, f) ==
  /\ IF frames # <<>> /\ ~ Declares(Len(frames), x)
       THEN /\ frames' = [frames EXCEPT ![Len(frames)].binds[x] = f]
            /\ answer' = [op |-> "add", ok |-> TRUE]
       ELSE /\ answer' = [op |-> "add", ok |-> FALSE]
            /\ UNCHANGED frames
  /\ UNCHANGED opened

\* An outer declaration hidden by an unusable one is not looked for.
Resolve(x) ==
  /\ \/ \E i \in 1..Len(frames) :
           /\ Resolves(i, x)
           /\ answer' = [op |-> "lookup", id |-> x, scope |-> frames[i].id]
     \/ /\ \A i \in 1..Len(frames) : ~ Resolves(i, x)
        /\ answer' = [op |-> "lookup", id |-> x, scope |-> NoFrame]
  /\ UNCHANGED <<frames, opened>>

LexNext == \/ \E isBody \in BOOLEAN : Open(isBody)
           \/ Close
           \/ \E x \in Ids, f \in Flags : Declare(x, f)
           \/ \E x \in Ids : Resolve(x)

LexSpec == LexInit /\ [][LexNext]_lexVars
=============================================================================
