------------------------------ MODULE AuthRun ------------------------------
(***************************************************************************)
(* run(ctx) of the generated auth_cpp/auth.cpp: the tree of components of  *)
(* the circuit Auth, each with a place in componentMemory and a range of   *)
(* signalValues. A run function creates its subcomponents, feeds them one  *)
(* input at a time, runs a subcomponent in the feed that sets the last of  *)
(* its inputs, writes its own output and releases its subcomponents.       *)
(***************************************************************************)
EXTENDS Integers, Sequences, SequencesExt

CONSTANTS
  q,             (* the prime of the field                                 *)
  RP,            (* partial rounds of Poseidon: 56 in the program          *)
  C, M, P, S,    (* the constants of Poseidon for two state elements       *)
  Inputs,        (* values of the main inputs, as <<storedHash,            *)
                 (* storedRole, role, password>>                           *)
  Unset          (* a signal that nothing has been written to              *)

Value == 0 .. q - 1
T     == {0, 1}

ASSUME FieldAssumption ==
  /\ q \in Nat \ {0, 1} /\ \A d \in 2 .. q - 1 : q % d # 0
  /\ Unset \notin Value
  /\ Inputs \subseteq [1 .. 4 -> Value]

ASSUME PoseidonAssumption ==
  /\ RP \in Nat \ {0}
  /\ C \in [0 .. 15 + RP -> Value]
  /\ M \in [T \X T -> Value] /\ P \in [T \X T -> Value]
  /\ S \in [0 .. 3 * RP - 1 -> Value]

Signals    == 0 .. 143 + 8 * RP    (* get_total_signal_no()                *)
Components == 0 .. 36 + 2 * RP     (* get_number_of_components()           *)

VARIABLES
  signalValues,
  componentMemory,
  stack,         (* the run functions that are active: component, and the  *)
                 (* statement each is at                                   *)
  runs,          (* how often a component has run (history)                *)
  failed         (* "undefined" once memory is used that is not set or not *)
                 (* there, "assert" once an assert fails                   *)

runVars == <<signalValues, componentMemory, stack, runs, failed>>

-----------------------------------------------------------------------------
(* Arithmetic, which reads the value of an unset signal as unset.          *)
Add(x, y) == IF Unset \in {x, y} THEN Unset ELSE (x + y) % q
Sub(x, y) == IF Unset \in {x, y} THEN Unset ELSE (x - y) % q
Mul(x, y) == IF Unset \in {x, y} THEN Unset ELSE (x * y) % q

-----------------------------------------------------------------------------
(* The templates: where a component has its inputs, from its signalStart   *)
(* on; inputCounter starts at their number. Every output is at 0 .. 1.     *)
(* For Ark, Mix and MixS the program looks these places up at run time, in *)
(* templateInsId2IOSignalInfo: the 66 entries of the repository's auth.dat *)
(* all have the definitions of size 1 at 0 and at 2 that are meant here.   *)
In(kind) ==
  CASE kind \in {"Ark", "Mix", "MixS"}                -> {2, 3}
    [] kind \in {"MixLast", "PoseidonEx", "IsEqual"}  -> {1, 2}
    [] kind \in {"Sigma", "Poseidon"}                 -> {1}
    [] kind = "Auth"                                  -> 1 .. 4

(* Mutant: PoseidonEx waits for an input that it does not have.            *)
CounterTooHigh(kind) ==
  CASE kind = "PoseidonEx"                                        -> 3
    [] kind \in {"Ark", "Mix", "MixS", "MixLast", "IsEqual"}      -> 2
    [] kind \in {"Sigma", "Poseidon"}                             -> 1
    [] kind = "Auth"                                              -> 4

Counter(kind) ==
  CASE kind \in {"Ark", "Mix", "MixS", "MixLast", "PoseidonEx", "IsEqual"} -> 2
    [] kind \in {"Sigma", "Poseidon"}                                       -> 1
    [] kind = "Auth"                                                        -> 4

(* The index in mySubcomponents of the subcomponents of PoseidonEx.        *)
ark(r)       == r
sigmaF(r, j) == 8 + 2 * r + j
sigmaP(r)    == 24 + r
mix(r)       == 24 + RP + r
mixS(r)      == 31 + RP + r
mixLast      == 31 + 2 * RP

(* Mutant: the signals of mixLast are placed one too early.                *)
PlaceOverlapping(kind, arg, s, c) ==
  [kind |-> kind, arg |-> arg, s |-> IF kind = "MixLast" THEN s - 1 ELSE s, c |-> c]

(* A subcomponent: its template with its argument, and its place after     *)
(* that of the component that creates it, in signalValues (s) and in       *)
(* componentMemory (c).                                                    *)
Place(kind, arg, s, c) == [kind |-> kind, arg |-> arg, s |-> s, c |-> c]

ArkConstants(r) == IF r <= 4 THEN 2 * r ELSE RP + 2 * r

PoseidonExSubs ==
  [k \in 0 .. mixLast |->
     CASE k < 8       -> Place("Ark", ArkConstants(k), 3 + 4 * k, k)
       [] k \in 8 .. 23 -> Place("Sigma", 0, 66 + 4 * RP + 4 * (k - 8), 16 + RP + k - 8)
       [] k \in 24 .. 23 + RP ->
            Place("Sigma", 0, 130 + 4 * RP + 4 * (k - 24), 32 + RP + k - 24)
       [] k \in mix(0) .. mix(6) ->
            Place("Mix", IF k = mix(3) THEN P ELSE M, 35 + 4 * (k - mix(0)), 8 + k - mix(0))
       [] k \in mixS(0) .. mixS(RP - 1) ->
            Place("MixS", k - mixS(0), 66 + 4 * (k - mixS(0)), 16 + k - mixS(0))
       [] k = mixLast -> Place("MixLast", 0, 63, 15)]

hasher    == 0
hashCheck == 1
roleCheck == 2

AuthSubs ==
  [k \in 0 .. 2 |->
     CASE k = hasher    -> Place("Poseidon", 0, 8, 1)
       [] k = hashCheck -> Place("IsEqual", 0, 5, 0)
       [] k = roleCheck -> Place("IsEqual", 0, 140 + 8 * RP, 35 + 2 * RP)]

Subs(kind) ==
  CASE kind = "Auth"       -> AuthSubs
    [] kind = "Poseidon"   -> [k \in {0} |-> Place("PoseidonEx", 0, 2, 0)]
    [] kind = "PoseidonEx" -> PoseidonExSubs
    [] OTHER               -> << >>

Composite == {"Auth", "Poseidon", "PoseidonEx"}

-----------------------------------------------------------------------------
(* The feeds of the run functions, in their order: input "in" of           *)
(* subcomponent "sub" from a source, which is a signal of the component    *)
(* itself, or of a subcomponent with a constant added. PoseidonEx tests    *)
(* whether the counter has reached 0; Auth asserts that it has or has not. *)
Own(o)           == [sub |-> -1, off |-> o, plus |-> 0]
Out(k, o)        == [sub |-> k, off |-> o, plus |-> 0]
OutPlus(k, o, c) == [sub |-> k, off |-> o, plus |-> c]
Constant(c)      == [sub |-> -2, off |-> 0, plus |-> c]

Feed(k, in, src)      == [sub |-> k, in |-> in, src |-> src, asserts |-> "nothing"]
FeedLast(k, in, src)  == [sub |-> k, in |-> in, src |-> src, asserts |-> "last"]
FeedFirst(k, in, src) == [sub |-> k, in |-> in, src |-> src, asserts |-> "notLast"]

(* A round of the first or second half.                                    *)
FullRound(r) ==
  LET before(j) == CASE r = 0 -> Out(ark(0), j)
                     [] r = 4 -> Out(mixS(RP - 1), j)
                     [] OTHER -> Out(mix(r - 1), j)
      toSigma(j) == Feed(sigmaF(r, j), 1, before(j))
      toArk(j)   == Feed(ark(r + 1), 2 + j, Out(sigmaF(r, j), 0))
      toMix(j)   == Feed(mix(r), 2 + j, Out(ark(r + 1), j))
  IN  << toSigma(0), toSigma(1) >> \o << toArk(0), toArk(1) >> \o << toMix(0), toMix(1) >>

(* Mutant: mixS gets its second element from its own round's sigmaP.       *)
PartialRoundWrongWire(r) ==
  LET before(j) == IF r = 0 THEN Out(mix(3), j) ELSE Out(mixS(r - 1), j)
  IN  << Feed(sigmaP(r), 1, before(0)),
         Feed(mixS(r), 2, OutPlus(sigmaP(r), 0, C[10 + r])),
         Feed(mixS(r), 3, Out(sigmaP(r), 0)) >>

(* Mutant: the first element is fed before sigmaP has its input.           *)
PartialRoundTooEarly(r) ==
  LET before(j) == IF r = 0 THEN Out(mix(3), j) ELSE Out(mixS(r - 1), j)
  IN  << Feed(mixS(r), 2, OutPlus(sigmaP(r), 0, C[10 + r])),
         Feed(sigmaP(r), 1, before(0)),
         Feed(mixS(r), 3, before(1)) >>

PartialRound(r) ==
  LET before(j) == IF r = 0 THEN Out(mix(3), j) ELSE Out(mixS(r - 1), j)
  IN  << Feed(sigmaP(r), 1, before(0)),
         Feed(mixS(r), 2, OutPlus(sigmaP(r), 0, C[10 + r])),
         Feed(mixS(r), 3, before(1)) >>

LastRound ==
  LET toSigma(j)   == Feed(sigmaF(7, j), 1, Out(mix(6), j))
      toMixLast(j) == Feed(mixLast, 1 + j, Out(sigmaF(7, j), 0))
  IN  << toSigma(0), toSigma(1) >> \o << toMixLast(0), toMixLast(1) >>

PoseidonExBody ==
  LET toArk(j)   == Feed(ark(0), 2 + j, Own(2 - j))
      partial(r) == PartialRound(r - 1)
  IN  << toArk(0), toArk(1) >> \o FullRound(0) \o FullRound(1) \o FullRound(2) \o FullRound(3)
      \o FlattenSeq([r \in 1 .. RP |-> partial(r)])
      \o FullRound(4) \o FullRound(5) \o FullRound(6)
      \o LastRound

AuthBody ==
  << FeedLast(hasher, 1, Own(4)),
     FeedFirst(hashCheck, 1, Out(hasher, 0)), FeedLast(hashCheck, 2, Own(1)),
     FeedFirst(roleCheck, 1, Own(3)), FeedLast(roleCheck, 2, Own(2)) >>

Body(kind) ==
  CASE kind = "Auth"       -> AuthBody
    [] kind = "Poseidon"   -> << Feed(0, 2, Constant(0)), Feed(0, 1, Own(1)) >>
    [] kind = "PoseidonEx" -> PoseidonExBody

-----------------------------------------------------------------------------
(* The run functions of the templates without subcomponents: sv once they  *)
(* have run for component c.                                               *)
Ark_run(c, sv) ==
  LET a == c.signalStart
  IN  [sv EXCEPT ![a] = Add(sv[a + 2], C[c.arg]), ![a + 1] = Add(sv[a + 3], C[c.arg + 1])]

Sigma_run(c, sv) ==
  LET a   == c.signalStart
      in2 == Mul(sv[a + 1], sv[a + 1])
      in4 == Mul(in2, in2)
  IN  [sv EXCEPT ![a + 2] = in2, ![a + 3] = in4, ![a] = Mul(in4, sv[a + 1])]

Mix_run(c, sv) ==
  LET a      == c.signalStart
      out(n) == Add(Mul(c.arg[<<0, n>>], sv[a + 2]), Mul(c.arg[<<1, n>>], sv[a + 3]))
  IN  [sv EXCEPT ![a] = out(0), ![a + 1] = out(1)]

MixS_run(c, sv) ==
  LET a   == c.signalStart
      in0 == sv[a + 2]
      in1 == sv[a + 3]
  IN  [sv EXCEPT ![a] = Add(Mul(S[3 * c.arg], in0), Mul(S[3 * c.arg + 1], in1)),
                 ![a + 1] = Add(in1, Mul(in0, S[3 * c.arg + 2]))]

MixLast_run(c, sv) ==
  LET a == c.signalStart
  IN  [sv EXCEPT ![a] = Add(Mul(M[<<0, 0>>], sv[a + 1]), Mul(M[<<1, 0>>], sv[a + 2]))]

IsEqual_run(c, sv) ==
  LET a          == c.signalStart
      difference == Sub(sv[a + 1], sv[a + 2])
  IN  [sv EXCEPT ![a] = Sub(1, Mul(difference, difference))]

(* The table of the run functions, by template: PoseidonEx calls those of  *)
(* Ark, Mix and MixS through _functionTable, and the others by their name. *)
functionTable(c, sv) ==
  CASE c.kind = "Ark"     -> Ark_run(c, sv)
    [] c.kind = "Sigma"   -> Sigma_run(c, sv)
    [] c.kind = "Mix"     -> Mix_run(c, sv)
    [] c.kind = "MixS"    -> MixS_run(c, sv)
    [] c.kind = "MixLast" -> MixLast_run(c, sv)
    [] c.kind = "IsEqual" -> IsEqual_run(c, sv)

(* componentMemory as its constructor leaves it, and as create does.       *)
NoComponent ==
  [kind |-> "none", arg |-> 0, signalStart |-> 0, inputCounter |-> 0,
   subcomponents |-> << >>, live |-> FALSE]

NewComponent(place, signalStart) ==
  [kind |-> place.kind, arg |-> place.arg, signalStart |-> signalStart,
   inputCounter |-> Counter(place.kind), subcomponents |-> << >>, live |-> TRUE]

Init ==
  /\ \E in \in Inputs :
       signalValues = [s \in Signals |-> IF s = 0 THEN 1 ELSE IF s \in 2 .. 5 THEN in[s - 1] ELSE Unset]
  /\ componentMemory = [c \in Components |-> NoComponent]
  /\ stack = << >>
  /\ runs = [c \in Components |-> 0]
  /\ failed = "no"

Top  == stack[Len(stack)]
Self == componentMemory[Top.ctx]

At(kinds) == failed = "no" /\ stack # << >> /\ Self.kind \in kinds

Advanced == [stack EXCEPT ![Len(stack)].pos = @ + 1]

(* run: Auth_71_create, and the call of Auth_71_run.                       *)
Run ==
  /\ stack = << >> /\ ~componentMemory[0].live
  /\ componentMemory' = [componentMemory EXCEPT ![0] = NewComponent(Place("Auth", 0, 1, 0), 1)]
  /\ stack' = << [ctx |-> 0, pos |-> 0] >>
  /\ runs' = [runs EXCEPT ![0] = 1]
  /\ UNCHANGED <<signalValues, failed>>

(* The create calls at the start of a run function.                        *)
Create ==
  /\ At(Composite) /\ Top.pos = 0
  /\ LET subs  == Subs(Self.kind)
         id(k) == Top.ctx + 1 + subs[k].c
         made  == {id(k) : k \in DOMAIN subs}
     IN  componentMemory' =
           [c \in Components |->
              CASE c = Top.ctx -> [Self EXCEPT !.subcomponents = [k \in DOMAIN subs |-> id(k)]]
                [] c \in made ->
                     LET k == CHOOSE k \in DOMAIN subs : id(k) = c
                     IN  NewComponent(subs[k], Self.signalStart + subs[k].s)
                [] OTHER -> componentMemory[c]]
  /\ stack' = Advanced
  /\ UNCHANGED <<signalValues, runs, failed>>

SubOf(k) == componentMemory[Self.subcomponents[k]]

Read(src) ==
  CASE src.sub = -2 -> src.plus
    [] src.sub = -1 -> signalValues[Self.signalStart + src.off]
    [] OTHER        -> Add(signalValues[SubOf(src.sub).signalStart + src.off], src.plus)

(* A feed that reads a signal that is not set, or writes to a component    *)
(* that is released, is undefined; so is a run with an input that is not   *)
(* set. Otherwise the asserts of Auth are checked after the copy.          *)
FeedNext ==
  /\ At(Composite) /\ Top.pos \in 1 .. Len(Body(Self.kind))
  /\ LET f    == Body(Self.kind)[Top.pos]
         sub  == SubOf(f.sub)
         id   == Self.subcomponents[f.sub]
         left == sub.inputCounter - 1
         sv   == [signalValues EXCEPT ![sub.signalStart + f.in] = Read(f.src)]
         ready == \A n \in In(sub.kind) : sv[sub.signalStart + n] # Unset
     IN  /\ componentMemory' = [componentMemory EXCEPT ![id].inputCounter = left]
         /\ failed' = CASE Read(f.src) = Unset \/ ~sub.live -> "undefined"
                        [] f.asserts = "last" /\ left # 0 -> "assert"
                        [] f.asserts = "notLast" /\ left = 0 -> "assert"
                        [] left = 0 /\ ~ready -> "undefined"
                        [] OTHER -> "no"
         /\ runs' = IF left = 0 THEN [runs EXCEPT ![id] = @ + 1] ELSE runs
         /\ IF left = 0 /\ sub.kind \in Composite
            THEN /\ stack' = Append(Advanced, [ctx |-> id, pos |-> 0])
                 /\ signalValues' = sv
            ELSE /\ stack' = Advanced
                 /\ signalValues' = IF left = 0 THEN functionTable(sub, sv) ELSE sv

(* The output of a run function; then it releases its subcomponents and    *)
(* returns.                                                                *)
Output(kind) ==
  CASE kind = "Auth"       -> Mul(Read(Out(hashCheck, 0)), Read(Out(roleCheck, 0)))
    [] kind = "Poseidon"   -> Read(Out(0, 0))
    [] kind = "PoseidonEx" -> Read(Out(mixLast, 0))

Released(mem, ids) == [c \in Components |-> [mem[c] EXCEPT !.live = @ /\ c \notin ids]]

Return ==
  /\ At(Composite) /\ Top.pos = Len(Body(Self.kind)) + 1
  /\ LET ids == {Self.subcomponents[k] : k \in DOMAIN Self.subcomponents} \ {0}
     IN  /\ componentMemory' = Released(componentMemory, ids)
         /\ failed' = IF Output(Self.kind) = Unset \/ \E c \in ids : ~componentMemory[c].live
                      THEN "undefined" ELSE "no"
  /\ signalValues' = [signalValues EXCEPT ![Self.signalStart] = Output(Self.kind)]
  /\ stack' = SubSeq(stack, 1, Len(stack) - 1)
  /\ UNCHANGED runs

Next == Run \/ Create \/ FeedNext \/ Return

Spec == Init /\ [][Next]_runVars /\ WF_runVars(Next)

-----------------------------------------------------------------------------
(* The hash that the schedule of PoseidonEx computes, as rounds on a pair. *)
(* (The pair of a round is bound by a set, so that TLC evaluates it once.) *)
Pow5(x) == Mul(Mul(Mul(x, x), Mul(x, x)), x)

Mixed(m, x) == << Add(Mul(m[<<0, 0>>], x[1]), Mul(m[<<1, 0>>], x[2])),
                  Add(Mul(m[<<0, 1>>], x[1]), Mul(m[<<1, 1>>], x[2])) >>

(* A full round and the constants that follow it; then a partial round.    *)
Full(m, x, c) == Mixed(m, << Add(Pow5(x[1]), C[c]), Add(Pow5(x[2]), C[c + 1]) >>)

Partial(r, x) ==
  LET y == Add(Pow5(x[1]), C[10 + r])
  IN  << Add(Mul(S[3 * r], y), Mul(S[3 * r + 1], x[2])), Add(x[2], Mul(y, S[3 * r + 2])) >>

Poseidon(x) ==
  LET first   == Full(P, Full(M, Full(M, Full(M, << C[0], Add(x, C[1]) >>, 2), 4), 6), 8)
      partial[r \in 0 .. RP] ==
        IF r = 0 THEN first ELSE CHOOSE y \in {Partial(r - 1, z) : z \in {partial[r - 1]}} : TRUE
      last    == Full(M, Full(M, Full(M, partial[RP], RP + 10), RP + 12), RP + 14)
  IN  Mixed(M, << Pow5(last[1]), Pow5(last[2]) >>)[1]

Done == stack = << >> /\ componentMemory[0].live /\ failed = "no"

storedHash == signalValues[2]
storedRole == signalValues[3]
role       == signalValues[4]
password   == signalValues[5]
isAuthenticated == signalValues[1]

IsEqual(x, y) == Sub(1, Mul(Sub(x, y), Sub(x, y)))

-----------------------------------------------------------------------------
RunTypeOK ==
  /\ signalValues \in [Signals -> Value \cup {Unset}]
  /\ \A c \in Components : /\ componentMemory[c].signalStart \in Signals
                           /\ componentMemory[c].inputCounter \in 0 .. 4
                           /\ componentMemory[c].live \in BOOLEAN
  /\ stack \in Seq([ctx : Components, pos : 0 .. Len(PoseidonExBody) + 1])
  /\ runs \in [Components -> 0 .. 1]
  /\ failed \in {"no", "undefined", "assert"}

(* The generated order of feeds never reads a signal before it is written, *)
(* feeds or releases a component that is released, or fails an assert.     *)
NeverFails == failed = "no"

(* A component runs in the feed that sets the last of its inputs, and only *)
(* once: no component that exists waits with all its inputs there, and     *)
(* none has run without them.                                              *)
RunsWhenFed ==
  \A c \in Components :
    LET m == componentMemory[c]
    IN  m.kind # "none" =>
          (runs[c] = 1 <=> \A n \in In(m.kind) : signalValues[m.signalStart + n] # Unset)

(* The ranges of the components do not overlap and no wire is driven       *)
(* twice: what is in a signal stays there.                                 *)
WrittenOnce ==
  [][\A s \in Signals : signalValues[s] # Unset => signalValues'[s] = signalValues[s]]_runVars

(* When run returns, every signal of the witness has a value, every        *)
(* component has run and all but the main one are released.                *)
LeavesNothingOut ==
  Done => /\ \A s \in Signals : signalValues[s] # Unset
          /\ \A c \in Components : runs[c] = 1 /\ (componentMemory[c].live <=> c = 0)

(* What run computes: the product of the two comparisons, the first with   *)
(* the Poseidon hash of the password. A password and role that match are   *)
(* accepted; a single mismatch is not. (The template IsEqual is 1 only for *)
(* equal inputs but not 0 for others: of two mismatches the product says   *)
(* nothing.)                                                               *)
ComputesAuth ==
  Done => LET matches == Poseidon(password) = storedHash
              same    == role = storedRole
          IN  /\ isAuthenticated =
                   Mul(IsEqual(Poseidon(password), storedHash), IsEqual(role, storedRole))
              /\ matches /\ same => isAuthenticated = 1
              /\ matches # same => isAuthenticated # 1

(* run returns.                                                            *)
Returns == <>Done
=============================================================================
