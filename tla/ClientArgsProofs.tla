--------------------------- MODULE ClientArgsProofs ---------------------------
(***************************************************************************)
(* The command line of the client, for all arguments and whatever strtol() *)
(* and strtod() make of them.                                              *)
(***************************************************************************)
EXTENDS ClientArgs, TLAPS

-----------------------------------------------------------------------------
(* The inductive invariant *)

Odd(k) == k % 2 = 1

\* Where the arguments before i set field f of the request.
Settings_(f) == {k \in Settings(f) : k < i}

\* What a field holds before any option sets it.
Unset(f) == IF req.type = "post_weather" /\ f # "value" THEN INVALID_VALUE ELSE 0

\* A field was not set yet, or holds the last of the numbers given for it.
FieldInv(f) ==
    \/ Settings_(f) = {} /\ req.num[f] = Unset(f)
    \/ \E k \in Settings_(f) :
          /\ \A l \in Settings_(f) : l <= k
          /\ req.num[f] = strtod[argv[k + 1]]
          /\ good_number(f, argv[k + 1])

\* The options before i are understood.
OptionsInv ==
    (pc \in {"options", "accepted"} /\ IsPost) =>
        /\ req.type = asked /\ Len(argv) % 2 = 0
        /\ \A f \in Fields : FieldInv(f)
        /\ \A k \in 3 .. i - 1 : Odd(k) =>
              argv[k] = "--pass" \/ \E f \in Fields : k \in Settings(f)

PcInv ==
    /\ req = [type |-> req.type, target |-> req.target, num |-> req.num]
    /\ Odd(i)
    /\ pc = "start" => i = 3
    /\ pc = "options" => IsPost /\ argc > 2 /\ type_ok
    /\ pc = "accepted" /\ IsPost => i >= Len(argv)

\* The command lines that the checks of the code leave, one by one.
Understood ==
    /\ argc > 2 /\ type_ok
    /\ asked = "post_weather" => Len(argv) > 2 /\ Len(argv) % 2 = 0
    /\ asked = "post_currency" => Len(argv) = 6
    /\ asked \in {"post_weather", "post_currency"} =>
          \A k \in 3 .. Len(argv) : k % 2 = 1 => IsPass(k) \/ Sets(asked, k)

UnderstoodIsAccepted == Understood => pc # "refused"

IInv == TypeOK /\ PcInv /\ OptionsInv /\ UnderstoodIsAccepted

-----------------------------------------------------------------------------
(* Arguments and options *)

PostTypes == {"post_weather", "post_currency"}

LEMMA OptionFacts ==
    ASSUME NEW type \in PostTypes, NEW o \in DOMAIN Options(type)
    PROVE  /\ Options(type)[o] \in Fields /\ o # "--pass"
           /\ type = "post_weather" => Options(type)[o] \in WeatherFields
<1>1. CASE type = "post_weather"
  BY <1>1 DEF Options, Fields, WeatherFields
<1>2. CASE type = "post_currency"
  BY <1>2 DEF PostTypes, Options, Fields
<1> QED BY <1>1, <1>2 DEF PostTypes

LEMMA AskedFacts ==
    ASSUME type_ok
    PROVE  asked \in {"weather", "currency", "post_weather", "post_currency"}
<1>1. to_int(number) \in 1 .. 4
  BY DEF type_ok, RequestTypes
<1>2. \A n \in 1 .. 4 : RequestTypes[n] \in {"weather", "currency", "post_weather", "post_currency"}
  BY DEF RequestTypes
<1> QED BY <1>1, <1>2 DEF asked

\* No number that an option takes is INVALID_VALUE.
LEMMA NumberFacts ==
    ASSUME NEW f \in Fields, NEW arg \in Args, good_number(f, arg)
    PROVE  strtod[arg] \in Int \cup {nan} /\ strtod[arg] # INVALID_VALUE
<1>1. strtod[arg] \in Int \cup {nan}
  BY ClientArgsAssumption DEF good_number
<1>2. limit(f) \in Int /\ limit(f) > INVALID_VALUE /\ INVALID_VALUE \in Int
  BY DEF limit, INVALID_VALUE
<1>3. CASE strtod[arg] = nan
  BY <1>2, <1>3, ClientArgsAssumption
<1>4. CASE strtod[arg] # nan
  BY <1>1, <1>2, <1>4 DEF good_number
<1> QED BY <1>1, <1>3, <1>4

LEMMA Parity == \A k, n \in Int : Odd(k) /\ Odd(n) /\ k < n + 2 => k < n \/ k = n
BY DEF Odd

\* The loop goes to the next option: what it sets is what argv[i] sets.
LEMMA NextSettings ==
    ASSUME IInv, i \in Int, i' = i + 2, argv' = argv, req'.type = req.type, NEW f
    PROVE  /\ Settings(f)' = Settings(f) /\ Unset(f)' = Unset(f)
           /\ i \in Settings(f) => Settings_(f)' = Settings_(f) \cup {i}
           /\ i \notin Settings(f) => Settings_(f)' = Settings_(f)
<1>1. Settings(f)' = Settings(f) /\ Unset(f)' = Unset(f)
  BY DEF Settings, Unset
<1>2. \A k \in Settings(f) : k \in Int /\ Odd(k)
  <2>1. \A k \in Settings(f) : k \in 3 .. Len(argv) - 1 /\ Odd(k)
    BY DEF Settings, Odd
  <2>2. Len(argv) \in Nat
    BY DEF IInv, TypeOK
  <2> QED BY <2>1, <2>2
<1>3. \A k \in Settings(f) : k < i + 2 <=> k < i \/ k = i
  BY <1>2, Parity DEF IInv, PcInv
<1>4. Settings_(f)' = {k \in Settings(f) : k < i + 2}
  BY <1>1 DEF Settings_
<1> QED BY <1>1, <1>3, <1>4 DEF Settings_

-----------------------------------------------------------------------------
(* The invariant is inductive *)

LEMMA InitInv == Init => IInv
<1> SUFFICES ASSUME Init PROVE IInv
  OBVIOUS
<1>1. argv \in Seq(Args) /\ Len(argv) \in Nat /\ i = 3
  BY ClientArgsAssumption DEF Init
<1>2. TypeOK
  <2>1. /\ req.type = "weather" /\ req.target = Empty
        /\ req.num = [f \in Fields |-> 0] /\ pc = "start"
    BY DEF Init, Zero
  <2>2. req.num \in [Fields -> Int \cup {nan}]
    BY <2>1
  <2> QED BY <1>1, <2>1, <2>2 DEF TypeOK
<1>3. PcInv /\ OptionsInv /\ UnderstoodIsAccepted
  BY <1>1 DEF Init, Zero, PcInv, OptionsInv, Understood, UnderstoodIsAccepted, Odd
<1> QED BY <1>2, <1>3 DEF IInv

\* A refusal, of a command line that is not understood.
LEMMA RefuseStep ==
    ASSUME IInv, Refuse, UnderstoodIsAccepted' PROVE IInv'
<1>1. TypeOK' /\ PcInv' /\ OptionsInv'
  BY DEF Refuse, IInv, TypeOK, PcInv, OptionsInv
<1> QED BY <1>1 DEF IInv

LEMMA TooFewArgsStep == ASSUME IInv, TooFewArgs PROVE IInv'
<1>1. argc <= 2 /\ Len(argv) \in Nat /\ argv' = argv
  BY DEF TooFewArgs, Refuse, IInv, TypeOK
<1>2. UnderstoodIsAccepted'
  BY <1>1 DEF Understood, UnderstoodIsAccepted, argc
<1> QED BY <1>2, RefuseStep DEF TooFewArgs

LEMMA BadTypeStep == ASSUME IInv, BadType PROVE IInv'
<1>1. UnderstoodIsAccepted'
  BY DEF BadType, Refuse, Understood, UnderstoodIsAccepted, type_ok, number
<1> QED BY <1>1, RefuseStep DEF BadType

LEMMA BadCountStep == ASSUME IInv, BadCount PROVE IInv'
<1>1. argv' = argv /\ Len(argv) \in Nat /\ ~argc_ok
  BY DEF BadCount, Refuse, IInv, TypeOK
<1>2. UnderstoodIsAccepted'
  <2> SUFFICES ASSUME asked = "post_weather" => Len(argv) > 2 /\ Len(argv) % 2 = 0,
                      asked = "post_currency" => Len(argv) = 6
               PROVE  FALSE
    BY <1>1 DEF Understood, UnderstoodIsAccepted, asked, number
  <2>1. asked \in PostTypes
    BY DEF BadCount, Post, PostTypes
  <2>2. CASE asked = "post_weather"
    <3>1. Len(argv) > 2 /\ Len(argv) % 2 = 0
      BY <2>2
    <3>2. argc >= 5 /\ (argc - 3) % 2 = 0
      BY <1>1, <3>1 DEF argc
    <3> QED BY <1>1, <2>2, <3>2 DEF argc_ok
  <2>3. CASE asked = "post_currency"
    <3>1. Len(argv) = 6
      BY <2>3
    <3>2. argc = 7
      BY <3>1 DEF argc
    <3> QED BY <1>1, <2>3, <3>2 DEF argc_ok
  <2> QED BY <2>1, <2>2, <2>3 DEF PostTypes
<1> QED BY <1>2, RefuseStep DEF BadCount

LEMMA TargetFacts == ASSUME IInv, argc > 2 PROVE target \in (Args \ LongArgs) \cup {Empty}
<1>1. argv[2] \in Args
  BY DEF IInv, TypeOK, argc
<1> QED BY <1>1 DEF target

LEMMA GetStep == ASSUME IInv, Get PROVE IInv'
<1>1. /\ argc > 2 /\ asked \in {"weather", "currency"} /\ pc' = "accepted"
      /\ req.num' = req.num /\ req'.type = asked /\ req'.target = target
      /\ req' = [type |-> asked, target |-> target, num |-> req.num]
      /\ UNCHANGED <<argv, i>>
  BY DEF Get, IInv, PcInv
<1>2. TypeOK'
  BY <1>1, TargetFacts DEF IInv, TypeOK
<1>3. ~IsPost'
  BY <1>1 DEF IsPost
<1>4. PcInv' /\ OptionsInv' /\ UnderstoodIsAccepted'
  BY <1>1, <1>3 DEF IInv, PcInv, OptionsInv, Understood, UnderstoodIsAccepted
<1> QED BY <1>2, <1>4 DEF IInv

LEMMA StartPostStep == ASSUME IInv, StartPost PROVE IInv'
<1> DEFINE zero(f) == IF asked = "post_weather" /\ f # "value" THEN INVALID_VALUE ELSE 0
<1>1. /\ pc = "start" /\ argc > 2 /\ type_ok /\ asked \in PostTypes /\ argc_ok
      /\ req' = [type |-> asked, target |-> target, num |-> [f \in Fields |-> zero(f)]]
      /\ pc' = "options" /\ UNCHANGED <<argv, i>>
  BY DEF StartPost, Post, PostTypes
<1>2. /\ i = 3 /\ Len(argv) \in Nat /\ Len(argv) % 2 = 0
  <2>1. i = 3 /\ Len(argv) \in Nat
    BY <1>1 DEF IInv, TypeOK, PcInv
  <2> QED BY <1>1, <2>1 DEF argc_ok, argc
<1>3. \A f \in Fields : zero(f) \in Int
  BY DEF INVALID_VALUE
<1>4. /\ req'.type = asked /\ req'.target = target
      /\ req'.num = [f \in Fields |-> zero(f)]
  BY <1>1
<1>5. TypeOK'
  BY <1>1, <1>3, <1>4, TargetFacts DEF IInv, TypeOK, PostTypes
<1>6. asked' = asked /\ type_ok' = type_ok /\ argc' = argc
  BY <1>1 DEF asked, type_ok, number, argc
<1>7. \A f \in Fields : FieldInv(f)'
  <2> SUFFICES ASSUME NEW f \in Fields PROVE FieldInv(f)'
    OBVIOUS
  <2>1. Settings_(f)' = {}
    BY <1>1, <1>2 DEF Settings_, Settings
  <2>2. req'.num[f] = Unset(f)'
    BY <1>4 DEF Unset
  <2> QED BY <2>1, <2>2 DEF FieldInv
<1>8. OptionsInv'
  BY <1>1, <1>2, <1>4, <1>6, <1>7 DEF OptionsInv
<1>9. PcInv'
  BY <1>1, <1>2, <1>4, <1>6 DEF PcInv, IsPost, PostTypes, Odd
<1>10. UnderstoodIsAccepted'
  BY <1>1 DEF Understood, UnderstoodIsAccepted
<1> QED BY <1>5, <1>8, <1>9, <1>10 DEF IInv

\* Where the loop is, and what it leaves alone.
LEMMA LoopFacts ==
    ASSUME IInv, pc = "options", i < argc - 1
    PROVE  /\ i \in 3 .. Len(argv) - 1 /\ Len(argv) \in Nat /\ Odd(i) /\ Odd(i + 2)
           /\ i + 2 \in 3 .. Len(argv) + 3
           /\ req.type \in PostTypes /\ req.type = asked /\ type_ok /\ argc > 2
           /\ argv[i] \in Args /\ argv[i + 1] \in Args
           /\ \A f : i \in Settings(f) <=>
                /\ argv[i] \in DOMAIN Options(req.type)
                /\ Options(req.type)[argv[i]] = f
<1>1. /\ Len(argv) \in Nat /\ i \in 3 .. Len(argv) + 3 /\ Odd(i) /\ i < Len(argv)
      /\ argv \in Seq(Args)
  BY DEF IInv, TypeOK, PcInv, argc
<1>2. i \in 3 .. Len(argv) - 1 /\ Odd(i + 2) /\ i + 2 \in 3 .. Len(argv) + 3
  BY <1>1 DEF Odd
<1>3. /\ req.type \in PostTypes /\ req.type = asked /\ type_ok /\ argc > 2
  BY DEF IInv, PcInv, OptionsInv, IsPost, PostTypes
<1>4. argv[i] \in Args /\ argv[i + 1] \in Args
  BY <1>1, <1>2
<1>5. \A f : i \in Settings(f) <=>
                /\ argv[i] \in DOMAIN Options(req.type)
                /\ Options(req.type)[argv[i]] = f
  BY <1>1, <1>2 DEF Settings, Odd
<1> QED BY <1>1, <1>2, <1>3, <1>4, <1>5

\* An option that is understood moves the loop on; what remains is its field.
LEMMA OptionStep ==
    ASSUME IInv, pc = "options", i < argc - 1,
           i' = i + 2, argv' = argv, pc' = pc, req'.type = req.type,
           req'.target = req.target, req'.num \in [Fields -> Int \cup {nan}],
           req' = [type |-> req'.type, target |-> req'.target, num |-> req'.num],
           argv[i] = "--pass" \/ \E f \in Fields : i \in Settings(f),
           \A f \in Fields : FieldInv(f)'
    PROVE  IInv'
<1>1. TypeOK'
  BY LoopFacts DEF IInv, TypeOK
<1>2. asked' = asked /\ type_ok' = type_ok /\ argc' = argc
  BY DEF asked, type_ok, number, argc
<1>3. PcInv'
  BY <1>2, LoopFacts DEF PcInv, IsPost, PostTypes
<1>4. \A k \in 3 .. i' - 1 : Odd(k) =>
         argv'[k] = "--pass" \/ \E f \in Fields : k \in Settings(f)'
  <2> SUFFICES ASSUME NEW k \in 3 .. i + 1, Odd(k)
               PROVE  argv[k] = "--pass" \/ \E f \in Fields : k \in Settings(f)
    BY LoopFacts, NextSettings
  <2>1. k < i \/ k = i
    BY LoopFacts, Parity
  <2>2. CASE k < i
    <3>1. k \in 3 .. i - 1
      BY <2>2, LoopFacts
    <3> QED BY <3>1, LoopFacts DEF IInv, OptionsInv, IsPost, PostTypes
  <2> QED BY <2>1, <2>2
<1>5. OptionsInv'
  BY <1>2, <1>4, LoopFacts DEF IInv, OptionsInv, IsPost, PostTypes
<1>6. UnderstoodIsAccepted'
  BY DEF Understood, UnderstoodIsAccepted
<1> QED BY <1>1, <1>3, <1>5, <1>6 DEF IInv

LEMMA PassStep == ASSUME IInv, Pass PROVE IInv'
<1>1. /\ pc = "options" /\ i < argc - 1 /\ argv[i] = "--pass"
      /\ i' = i + 2 /\ argv' = argv /\ pc' = pc /\ req' = req
  BY DEF Pass, IsPass
<1>2. \A f \in Fields : i \notin Settings(f)
  BY <1>1, LoopFacts, OptionFacts
<1>3. ASSUME NEW f \in Fields PROVE FieldInv(f)'
  <2>1. Settings_(f)' = Settings_(f) /\ Unset(f)' = Unset(f)
    BY <1>1, <1>2, NextSettings, LoopFacts
  <2>2. FieldInv(f)
    BY <1>1, LoopFacts DEF IInv, OptionsInv, IsPost, PostTypes
  <2> QED BY <1>1, <2>1, <2>2 DEF FieldInv
<1>4. /\ req.num \in [Fields -> Int \cup {nan}]
      /\ req = [type |-> req.type, target |-> req.target, num |-> req.num]
  BY DEF IInv, TypeOK, PcInv
<1> QED BY <1>1, <1>3, <1>4, OptionStep

LEMMA SetFieldStep == ASSUME IInv, SetField PROVE IInv'
<1>0. PICK fld \in Fields :
         fld = Options(req.type)[argv[i]] /\ argv[i] \in DOMAIN Options(req.type)
  BY LoopFacts, OptionFacts DEF SetField, Sets
<1> DEFINE num == strtod[argv[i + 1]]
<1>1. /\ pc = "options" /\ i < argc - 1 /\ argv[i] \in DOMAIN Options(req.type)
      /\ good_number(fld, argv[i + 1])
      /\ req' = [req EXCEPT !.num[fld] = num]
      /\ i' = i + 2 /\ argv' = argv /\ pc' = pc
  BY <1>0 DEF SetField, Sets
<1>2. fld \in Fields /\ num \in Int \cup {nan}
  BY <1>1, LoopFacts, NumberFacts
<1>3. i \in Settings(fld) /\ \A f : f # fld => i \notin Settings(f)
  BY <1>0, <1>1, LoopFacts
<1>4. /\ req.num \in [Fields -> Int \cup {nan}]
      /\ req = [type |-> req.type, target |-> req.target, num |-> req.num]
  BY DEF IInv, TypeOK, PcInv
<1> HIDE DEF num
<1>5. /\ req'.type = req.type /\ req'.target = req.target
      /\ req'.num = [req.num EXCEPT ![fld] = num]
      /\ req' = [type |-> req'.type, target |-> req'.target, num |-> req'.num]
  BY <1>1, <1>4
<1>6. req'.num \in [Fields -> Int \cup {nan}]
  BY <1>2, <1>4, <1>5
<1>7. ASSUME NEW f \in Fields, f # fld PROVE FieldInv(f)'
  <2>1. Settings_(f)' = Settings_(f) /\ Unset(f)' = Unset(f)
    BY <1>1, <1>3, <1>5, <1>7, NextSettings, LoopFacts
  <2>2. FieldInv(f) /\ req'.num[f] = req.num[f]
    BY <1>1, <1>4, <1>5, <1>7, LoopFacts DEF IInv, OptionsInv, IsPost, PostTypes
  <2> QED BY <1>1, <2>1, <2>2 DEF FieldInv
<1>8. FieldInv(fld)'
  <2>1. Settings_(fld)' = Settings_(fld) \cup {i}
    BY <1>1, <1>3, <1>5, NextSettings, LoopFacts
  <2>2. \A l \in Settings_(fld)' : l <= i
    <3>1. i \in Int /\ Len(argv) \in Nat
      BY <1>1, LoopFacts
    <3>2. \A l \in Settings_(fld) : l \in Int /\ l < i
      BY <3>1 DEF Settings_, Settings
    <3> QED BY <2>1, <3>1, <3>2
  <2>3. req'.num[fld] = strtod[argv[i + 1]] /\ good_number(fld, argv[i + 1])
    BY <1>1, <1>2, <1>4, <1>5 DEF num
  <2> QED BY <1>1, <2>1, <2>2, <2>3 DEF FieldInv
<1>9. \A f \in Fields : FieldInv(f)'
  BY <1>7, <1>8
<1> QED BY <1>1, <1>2, <1>3, <1>5, <1>6, <1>9, OptionStep

LEMMA BadOptionStep == ASSUME IInv, BadOption PROVE IInv'
<1>1. /\ pc = "options" /\ i < argc - 1 /\ ~IsPass(i) /\ ~Sets(req.type, i) /\ argv' = argv
  BY DEF BadOption, Refuse
<1>2. /\ i \in 3 .. Len(argv) /\ i % 2 = 1 /\ asked = req.type
      /\ asked \in {"post_weather", "post_currency"}
  BY <1>1, LoopFacts DEF Odd, PostTypes
<1>3. UnderstoodIsAccepted'
  BY <1>1, <1>2 DEF Understood, UnderstoodIsAccepted, asked, number, IsPass, Sets
<1> QED BY <1>3, RefuseStep DEF BadOption

LEMMA EndOptionsStep == ASSUME IInv, EndOptions PROVE IInv'
<1>1. /\ pc = "options" /\ i >= argc - 1 /\ pc' = "accepted" /\ UNCHANGED <<argv, i, req>>
  BY DEF EndOptions
<1>2. TypeOK' /\ UnderstoodIsAccepted'
  BY <1>1 DEF IInv, TypeOK, Understood, UnderstoodIsAccepted
<1>3. i >= Len(argv)
  BY <1>1 DEF argc, IInv, TypeOK
<1>4. PcInv'
  BY <1>1, <1>3 DEF IInv, PcInv
<1>5. OptionsInv'
  <2>1. \A f : FieldInv(f)' <=> FieldInv(f)
    BY <1>1 DEF FieldInv, Settings_, Settings, Unset
  <2>2. \A f : Settings(f)' = Settings(f)
    BY <1>1 DEF Settings
  <2>3. asked' = asked /\ IsPost' = IsPost
    BY <1>1 DEF asked, number, IsPost
  <2> QED BY <1>1, <2>1, <2>2, <2>3 DEF IInv, OptionsInv
<1> QED BY <1>2, <1>4, <1>5 DEF IInv

LEMMA NextInv == ASSUME IInv, [Next]_vars PROVE IInv'
<1>1. CASE UNCHANGED vars
  <2>1. TypeOK' /\ UnderstoodIsAccepted'
    <3>1. UNCHANGED <<argv, pc, i, req>>
      BY <1>1 DEF vars
    <3>2. TypeOK'
      BY <3>1 DEF IInv, TypeOK
    <3>3. UnderstoodIsAccepted'
      BY <3>1 DEF IInv, Understood, UnderstoodIsAccepted, argc, type_ok, number, asked, IsPass, Sets
    <3> QED BY <3>2, <3>3
  <2>2. PcInv'
    BY <1>1 DEF vars, IInv, PcInv, IsPost, argc, type_ok, number
  <2>3. OptionsInv'
    BY <1>1 DEF vars, IInv, OptionsInv, FieldInv, Settings_, Settings, Unset, IsPost,
                asked, number
  <2> QED BY <2>1, <2>2, <2>3 DEF IInv
<1>2. CASE Next
  BY <1>2, TooFewArgsStep, BadTypeStep, GetStep, BadCountStep, StartPostStep, PassStep,
     SetFieldStep, BadOptionStep, EndOptionsStep DEF Next
<1> QED BY <1>1, <1>2

-----------------------------------------------------------------------------
(* The theorems *)

LEMMA Invariant == Spec => []IInv
BY InitInv, NextInv, PTL DEF Spec

\* What an accepted POST carries, field by field: the loop has seen it all.
LEMMA AcceptedFacts ==
    ASSUME IInv, pc = "accepted", IsPost
    PROVE  /\ \A f \in Fields : FieldInv(f) /\ Settings_(f) = Settings(f)
           /\ Len(argv) \in Nat /\ Len(argv) % 2 = 0 /\ i \in Int /\ i >= Len(argv)
<1>1. /\ Len(argv) \in Nat /\ Len(argv) % 2 = 0 /\ i \in Int /\ i >= Len(argv)
      /\ \A f \in Fields : FieldInv(f)
  BY DEF IInv, TypeOK, PcInv, OptionsInv
<1>2. \A f : Settings_(f) = Settings(f)
  BY <1>1 DEF Settings_, Settings
<1> QED BY <1>1, <1>2

\* The types hold: the loop over the options stays within argv (main.c:123, 157).
THEOREM ArgsTyped == Spec => []TypeOK
<1>1. IInv => TypeOK
  BY DEF IInv
<1> QED BY Invariant, <1>1, PTL

\* A legal command line gives one to four, and then each option is understood.
LEMMA LegalUnderstood == ASSUME IInv, Legal PROVE Understood
<1> DEFINE Given == {k \in 3 .. Len(argv) : k % 2 = 1}
<1>1. argv \in Seq(Args) /\ Len(argv) \in Nat /\ Len(argv) >= 2 /\ argc > 2
  BY DEF IInv, TypeOK, Legal, LegalHead, argc
<1>2. number \in 1 .. 4 /\ to_int(number) = number /\ type_ok /\ asked = RequestTypes[number]
  <2>1. number \in 1 .. 4
    BY DEF Legal, LegalHead, number
  <2>2. to_int(number) = number
    BY <2>1, ClientArgsAssumption DEF to_int
  <2>3. Len(RequestTypes) = 4
    BY DEF RequestTypes
  <2> QED BY <2>1, <2>2, <2>3, ClientArgsAssumption DEF type_ok, asked
<1>3. /\ asked = "post_weather" <=> number = 3
      /\ asked = "post_currency" <=> number = 4
  BY <1>2 DEF RequestTypes
<1>4. CASE number \notin {3, 4}
  BY <1>1, <1>2, <1>3, <1>4 DEF Understood
<1>5. CASE number \in {3, 4}
  <2>1. LegalOptions
    BY <1>5 DEF Legal, number
  <2>2. /\ Len(argv) % 2 = 0
        /\ \A k, l \in Given : argv[k] = argv[l] => k = l
        /\ \E k, l \in Given : argv[k] = "--pass" /\ argv[l] # "--pass"
        /\ \A k \in Given :
              IF argv[k] = "--pass" THEN argv[k + 1] = SECRET_PASSWORD
              ELSE argv[k] \in ValueOptions /\ InRange(argv[k], strtod[argv[k + 1]])
    BY <2>1 DEF LegalOptions
  <2>3. Len(argv) > 2
    BY <1>1, <2>2
  <2>4. ASSUME NEW k \in Given, argv[k] # "--pass" PROVE Sets(asked, k)
    <3>1. argv[k] \in ValueOptions /\ InRange(argv[k], strtod[argv[k + 1]])
      BY <2>2, <2>4
    <3>2. strtod[argv[k + 1]] \in Int /\ strtod[argv[k + 1]] # None
      BY <3>1, ClientArgsAssumption DEF InRange
    <3>3. CASE number = 3
      <4>1. argv[k] \in {"--p", "--t", "--h"} /\ asked = "post_weather"
        BY <1>3, <3>1, <3>3 DEF ValueOptions, number
      <4>2. /\ argv[k] \in DOMAIN Options(asked)
            /\ Options(asked)[argv[k]] = "temperature" <=> argv[k] = "--t"
        BY <4>1 DEF Options
      <4> QED BY <3>1, <3>2, <4>2 DEF Sets, good_number, limit, InRange
    <3>4. CASE number = 4
      <4>1. argv[k] = "--c" /\ asked = "post_currency"
        BY <1>3, <3>1, <3>4 DEF ValueOptions, number
      <4>2. argv[k] \in DOMAIN Options(asked) /\ Options(asked)[argv[k]] = "value"
        BY <4>1 DEF Options
      <4> QED BY <3>1, <3>2, <4>1, <4>2 DEF Sets, good_number, limit, InRange
    <3> QED BY <1>5, <3>3, <3>4
  <2>5. ASSUME NEW k \in 3 .. Len(argv), k % 2 = 1 PROVE IsPass(k) \/ Sets(asked, k)
    BY <2>2, <2>4, <2>5 DEF IsPass
  <2>6. ASSUME number = 4 PROVE Len(argv) = 6
    <3>1. \A k \in Given : argv[k] = "--pass" \/ argv[k] = "--c"
      BY <2>2, <2>6 DEF ValueOptions, number
    <3>2. ~(Len(argv) >= 7)
      <4>1. Len(argv) >= 7 => 3 \in Given /\ 5 \in Given /\ 7 \in Given
        BY <1>1
      <4> HIDE DEF Given
      <4> QED BY <2>2, <3>1, <4>1
    <3>3. PICK k, l \in Given : argv[k] # argv[l]
      BY <2>2
    <3>4. Len(argv) <= 4 => k = 3 /\ l = 3
      BY <1>1, <3>3
    <3>5. Len(argv) \in Nat /\ Len(argv) % 2 = 0 /\ ~(Len(argv) <= 4)
      BY <1>1, <2>2, <3>3, <3>4
    <3>6. \A n \in Nat : n % 2 = 0 /\ ~(n <= 4) /\ ~(n >= 7) => n = 6
      OBVIOUS
    <3> QED BY <3>2, <3>5, <3>6, Zenon
  <2> QED BY <1>1, <1>2, <1>3, <2>2, <2>3, <2>5, <2>6 DEF Understood
<1> QED BY <1>4, <1>5

\* No command line of the form that the usage text describes is refused, whatever
\* strtol() and strtod() make of the arguments: see LegalIsAccepted.
THEOREM LegalAccepted == Spec => []LegalIsAccepted
<1>1. IInv => LegalIsAccepted
  BY LegalUnderstood DEF IInv, UnderstoodIsAccepted, LegalIsAccepted
<1> QED BY Invariant, <1>1, PTL

\* An accepted POST carries, for each field, the last number given for it, and
\* no argument is left over (main.c:123, 157).
THEOREM PostAsArgs == Spec => []PostIsAsArgs
<1>1. ASSUME IInv PROVE PostIsAsArgs
  <2> SUFFICES ASSUME pc = "accepted", IsPost PROVE PostIsAsArgs
    BY DEF PostIsAsArgs
  <2>1. ASSUME NEW f \in Fields, NEW k \in Settings(f), \A l \in Settings(f) : l <= k
        PROVE  req.num[f] = strtod[argv[k + 1]]
    <3>1. PICK n \in Settings(f) :
             (\A l \in Settings(f) : l <= n) /\ req.num[f] = strtod[argv[n + 1]]
      BY <2>1, <1>1, AcceptedFacts DEF FieldInv
    <3>2. n \in Int /\ k \in Int /\ n <= k /\ k <= n
      BY <2>1, <3>1 DEF Settings
    <3>3. n = k
      BY <3>2
    <3> QED BY <3>1, <3>3
  <2>2. ASSUME NEW k \in 3 .. Len(argv), k % 2 = 1
        PROVE  argv[k] = "--pass" \/ \E f \in Fields : k \in Settings(f)
    <3>1. k \in 3 .. i - 1 /\ Odd(k)
      BY <2>2, <1>1, AcceptedFacts DEF Odd
    <3> QED BY <3>1, <1>1 DEF IInv, OptionsInv
  <2> QED BY <2>1, <2>2 DEF PostIsAsArgs
<1> QED BY Invariant, <1>1, PTL

\* A weather field travels as INVALID_VALUE if and only if no option gives it,
\* whatever strtod() makes of the arguments (main.c:148, 172).
THEOREM OmittedIsInvalid == Spec => []InvalidIffOmitted
<1>1. ASSUME IInv PROVE InvalidIffOmitted
  <2> SUFFICES ASSUME pc = "accepted", req.type = "post_weather", NEW f \in WeatherFields
               PROVE  req.num[f] = INVALID_VALUE <=> Settings(f) = {}
    BY DEF InvalidIffOmitted
  <2>1. IsPost /\ f \in Fields /\ f # "value"
    BY DEF IsPost, Fields, WeatherFields
  <2>2. FieldInv(f) /\ Settings_(f) = Settings(f)
    BY <1>1, <2>1, AcceptedFacts
  <2>3. CASE Settings(f) = {}
    BY <2>1, <2>2, <2>3 DEF FieldInv, Unset
  <2>4. CASE Settings(f) # {}
    <3>1. PICK k \in Settings(f) :
             req.num[f] = strtod[argv[k + 1]] /\ good_number(f, argv[k + 1])
      BY <2>2, <2>4 DEF FieldInv
    <3>2. argv[k + 1] \in Args
      BY <1>1, <3>1 DEF Settings, IInv, TypeOK
    <3> QED BY <2>1, <2>4, <3>1, <3>2, NumberFacts
  <2> QED BY <2>3, <2>4
<1> QED BY Invariant, <1>1, PTL
=============================================================================
