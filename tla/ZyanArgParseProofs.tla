------------------------- MODULE ZyanArgParseProofs --------------------------
(***************************************************************************)
(* ZyanArgParseEx for any command line and any definitions: what it        *)
(* accepts is within the limits, has the required arguments, treats what   *)
(* follows "--" as arguments without names and loses no letter; an error   *)
(* in the arguments leaves no vector behind.                               *)
(***************************************************************************)
EXTENDS ZyanArgParse, FiniteSetTheorems, SequenceTheorems, TLAPS

Text == Seq(STRING)

Definition == [name : Text, boolean : BOOLEAN, required : BOOLEAN]

Argument == [def : DOMAIN cfg.args \cup {0}, has_value : BOOLEAN, value : Text]

Configuration ==
  [argv : Seq(Text), args : Seq(Definition), min_unnamed_args : Nat, max_unnamed_args : Nat]

\* The types, with where the cursor can be.
Placed ==
  /\ cfg \in Configuration
  /\ pc \in {"called", "tokens", "chars", "checks", "returned"}
  /\ i \in 1 .. Len(cfg.argv) + 1
  /\ read_ptr \in Nat
  /\ pc = "chars" => i <= Len(cfg.argv) /\ read_ptr \in 1 .. Len(cfg.argv[i]) + 1
  /\ pc = "called" => i = 1 /\ accept_dash_args = TRUE /\ capacity = 0
  /\ pc = "checks" \/ Accepted => i = Len(cfg.argv) + 1
  /\ accept_dash_args \in BOOLEAN
  /\ num_unnamed_args \in Nat
  /\ capacity \in Nat
  /\ err \in {"none", "SUCCESS", "INVALID_ARGUMENT", "NOT_ENOUGH_MEMORY",
              "ARG_NOT_UNDERSTOOD", "ARG_MISSES_VALUE", "TOO_MANY_ARGS",
              "TOO_FEW_ARGS", "REQUIRED_ARG_MISSING"}
  /\ pc = "returned" <=> err # "none"

\* The elements of the vector, which has room for them.
Filled ==
  /\ parsed \in Seq(Argument)
  /\ Len(parsed) <= capacity
  /\ \A n \in DOMAIN parsed :
       parsed[n].has_value = IF parsed[n].def = 0 THEN TRUE ELSE ~cfg.args[parsed[n].def].boolean

UnnamedOnes == {n \in DOMAIN parsed : parsed[n].def = 0}

\* As long as no error throws the elements away the counter counts.
Counting ==
  /\ pc # "returned" \/ Accepted
       => /\ num_unnamed_args = Cardinality(UnnamedOnes)
          /\ num_unnamed_args <= cfg.max_unnamed_args
  /\ Accepted => cfg.min_unnamed_args <= num_unnamed_args /\ Missing = {}
  /\ pc = "returned" /\ err \notin {"SUCCESS", "NOT_ENOUGH_MEMORY"} => capacity = 0 /\ parsed = << >>

\* A "--" that no argument with dashes precedes.
Ends(n) == cfg.argv[n] = <<Dash, Dash>> /\ \A m \in 1 .. n - 1 : cfg.argv[m][1] # Dash

\* An argument without a name.
Plain(token) == [def |-> 0, has_value |-> TRUE, value |-> token]

\* The last arguments are those of the tokens behind n and before next.
LastAre(args, argv, n, next) ==
  /\ Len(args) >= next - 1 - n
  /\ \A m \in n + 1 .. next - 1 : args[Len(args) - (next - 1) + m] = Plain(argv[m])

\* Up to such a "--" dashes are accepted, behind it every token is an argument.
Behind ==
  pc # "returned" \/ Accepted =>
    \A n \in DOMAIN cfg.argv : Ends(n) =>
      /\ pc # "chars"
      /\ accept_dash_args <=> i <= n
      /\ i > n => LastAre(parsed, cfg.argv, n, i)

ParseInv == Placed /\ Filled /\ Counting /\ Behind

-----------------------------------------------------------------------------
(* Lemmas.                                                                 *)

\* A set of natural numbers that is not empty has a least one: the intervals
\* that end in its elements are finite, and so well-founded by inclusion.
LEMMA LeastNatural ==
  ASSUME NEW T \in SUBSET Nat, T # {}
  PROVE  \E m \in T : \A n \in T : m <= n
<1> DEFINE R == StrictSubsetOrdering(Nat)
           F == {0 .. n : n \in T}
<1>1. F \subseteq FiniteSubsetsOf(Nat) /\ F # {}
  <2>1. \A n \in T : 0 .. n \in SUBSET Nat /\ IsFiniteSet(0 .. n)
    BY FS_Interval
  <2> QED
    BY <2>1 DEF FiniteSubsetsOf
<1>2. \E x \in F : \A y \in F : ~(<<y, x>> \in R)
  <2> HIDE DEF R, F
  <2>1. IsWellFoundedOn(R, FiniteSubsetsOf(Nat))
    BY FS_StrictSubsetOrderingWellFounded DEF R
  <2> QED
    BY <1>1, <2>1, WFMin
<1>3. PICK m \in T : \A n \in T : ~(<<0 .. n, 0 .. m>> \in R)
  BY <1>2
<1>4. ASSUME NEW n \in T, n < m PROVE FALSE
  <2>1. /\ 0 .. n \in SUBSET Nat /\ 0 .. m \in SUBSET Nat
        /\ 0 .. n \subseteq 0 .. m /\ m \in 0 .. m /\ m \notin 0 .. n
    BY <1>4
  <2>2. <<0 .. n, 0 .. m>> \in R
    BY <2>1 DEF StrictSubsetOrdering
  <2> QED
    BY <1>3, <2>2
<1> QED
  BY <1>4

\* What holds of zero, and of n + 1 whenever it holds of n
LEMMA Induction ==
  ASSUME NEW T \in SUBSET Nat, 0 \in T, \A n \in T : n + 1 \in T
  PROVE  T = Nat
<1> SUFFICES ASSUME Nat \ T # {} PROVE FALSE
  OBVIOUS
<1>1. PICK m \in Nat \ T : \A n \in Nat \ T : m <= n
  BY LeastNatural
<1>2. m - 1 \in T /\ m = (m - 1) + 1
  BY <1>1
<1> QED
  BY <1>1, <1>2

\* A definition that is found is one of those that were given, and has the name.
LEMMA Finding ==
  ASSUME cfg \in Configuration, NEW name, Named(name) # 0
  PROVE  Named(name) \in DOMAIN cfg.args /\ cfg.args[Named(name)].name = name
<1> DEFINE T == {k \in DOMAIN cfg.args : cfg.args[k].name = name}
<1>1. T \in SUBSET Nat
  BY DEF Configuration
<1>2. T # {}
  BY DEF Named, FirstOf
<1>3. \E m \in T : \A n \in T : m <= n
  BY <1>1, <1>2, LeastNatural
<1>4. Named(name) = CHOOSE m \in T : \A n \in T : m <= n
  BY <1>2 DEF Named, FirstOf
<1>5. Named(name) \in T
  BY <1>3, <1>4
<1> QED
  BY <1>5

\* Emplacing adds an element, and only an unnamed one is counted.
LEMMA Emplacing ==
  ASSUME Placed, Filled, NEW def \in DOMAIN cfg.args \cup {0}, NEW has_value \in BOOLEAN,
         NEW value \in Text, Emplaced(def, has_value, value),
         has_value = IF def = 0 THEN TRUE ELSE ~cfg.args[def].boolean
  PROVE  /\ Filled' /\ capacity' \in Nat
         /\ Len(parsed') = Len(parsed) + 1
         /\ \A n \in 1 .. Len(parsed) : parsed'[n] = parsed[n]
         /\ parsed'[Len(parsed) + 1] = [def |-> def, has_value |-> has_value, value |-> value]
         /\ Cardinality(UnnamedOnes') = Cardinality(UnnamedOnes) + IF def = 0 THEN 1 ELSE 0
<1> DEFINE new == [def |-> def, has_value |-> has_value, value |-> value]
<1>1. /\ cfg \in Configuration /\ cfg' = cfg /\ parsed \in Seq(Argument) /\ new \in Argument
      /\ parsed' = Append(parsed, new) /\ capacity' = Room
  BY DEF Placed, Filled, Emplaced, Argument
<1>2. /\ parsed' \in Seq(Argument) /\ Len(parsed') = Len(parsed) + 1 /\ Len(parsed) \in Nat
      /\ \A n \in 1 .. Len(parsed) : parsed'[n] = parsed[n]
      /\ parsed'[Len(parsed) + 1] = new
  <2> HIDE DEF new
  <2> QED
    BY <1>1
<1>3. capacity' \in Nat /\ Len(parsed') <= capacity'
  BY <1>1, <1>2 DEF Placed, Filled, Room
<1>4. DOMAIN parsed' = DOMAIN parsed \cup {Len(parsed) + 1} /\ DOMAIN parsed = 1 .. Len(parsed)
  BY <1>1, <1>2
<1>5. ASSUME NEW n \in DOMAIN parsed'
      PROVE  parsed'[n].has_value = IF parsed'[n].def = 0 THEN TRUE ELSE ~cfg'.args[parsed'[n].def].boolean
  <2>1. CASE n = Len(parsed) + 1
    <3>1. new.has_value = has_value /\ new.def = def
      BY Zenon
    <3>2. parsed'[n] = new
      BY <1>2, <2>1
    <3> HIDE DEF new
    <3> QED
      BY <1>1, <3>1, <3>2, Zenon
  <2>2. CASE n \in DOMAIN parsed
    <3>1. parsed'[n] = parsed[n]
      BY <1>2, <1>4, <2>2
    <3> QED
      BY <1>1, <2>2, <3>1 DEF Filled
  <2> QED
    BY <1>4, <2>1, <2>2
<1>6. Filled'
  BY <1>1, <1>2, <1>3, <1>5 DEF Filled, Argument
<1>7. Cardinality(UnnamedOnes') = Cardinality(UnnamedOnes) + IF def = 0 THEN 1 ELSE 0
  <2>1. UnnamedOnes' = IF def = 0 THEN UnnamedOnes \cup {Len(parsed) + 1} ELSE UnnamedOnes
    BY <1>2, <1>4 DEF UnnamedOnes
  <2>2. UnnamedOnes \in SUBSET (1 .. Len(parsed)) /\ Len(parsed) + 1 \notin UnnamedOnes
    BY <1>2, <1>4 DEF UnnamedOnes
  <2>3. IsFiniteSet(UnnamedOnes)
    <3>1. Len(parsed) \in Int
      BY <1>2
    <3>2. IsFiniteSet(1 .. Len(parsed))
      BY <3>1, FS_Interval
    <3> QED
      BY <2>2, <3>2, FS_Subset
  <2>4. Cardinality(UnnamedOnes) \in Nat
    BY <2>3, FS_CardinalityType
  <2>5. Cardinality(UnnamedOnes \cup {Len(parsed) + 1}) = Cardinality(UnnamedOnes) + 1
    BY <2>2, <2>3, FS_AddElement
  <2> QED
    BY <2>1, <2>4, <2>5
<1> QED
  BY <1>2, <1>3, <1>6, <1>7

\* While dashes are accepted no token with a dash but "--" itself can be
\* looked at before a "--" that ends them.
LEMMA NoEnd ==
  ASSUME Placed, Behind, pc = "tokens", i <= Len(cfg.argv), accept_dash_args,
         cur_arg[1] = Dash, cur_arg # <<Dash, Dash>>
  PROVE  \A n \in DOMAIN cfg.argv : ~Ends(n)
<1> SUFFICES ASSUME NEW n \in DOMAIN cfg.argv, Ends(n) PROVE FALSE
  OBVIOUS
<1>1. i <= n /\ n \in Nat /\ i \in Nat /\ i >= 1
  BY DEF Placed, Behind, Configuration
<1>2. i # n
  BY DEF Ends, cur_arg
<1> QED
  BY <1>1, <1>2 DEF Ends, cur_arg

-----------------------------------------------------------------------------
(* The three ways a step can go.                                           *)

\* An error of the command line throws away what was parsed.
LEMMA Failing ==
  ASSUME ParseInv, pc \in {"tokens", "chars", "checks"}, NEW token,
         NEW s \in {"ARG_NOT_UNDERSTOOD", "ARG_MISSES_VALUE", "TOO_MANY_ARGS",
                    "TOO_FEW_ARGS", "REQUIRED_ARG_MISSING"},
         Fail(s, token)
  PROVE  ParseInv'
<1>1. Placed'
  BY DEF ParseInv, Placed, Fail, Return, cursor, Accepted
<1>2. Filled'
  BY DEF ParseInv, Filled, Fail, Argument
<1> QED
  BY <1>1, <1>2 DEF ParseInv, Counting, Behind, Fail, Return, Accepted

\* The vector's own error leaves everything as it is.
LEMMA RunningOut ==
  ASSUME ParseInv, pc \in {"called", "tokens", "chars"}, Leave("NOT_ENOUGH_MEMORY")
  PROVE  ParseInv'
<1>1. Placed'
  BY DEF ParseInv, Placed, Leave, Return, cursor, Accepted
<1>2. Filled'
  BY DEF ParseInv, Filled, Leave, Argument
<1> QED
  BY <1>1, <1>2 DEF ParseInv, Counting, Behind, Leave, Return, Accepted

\* A vector with one element more.
Extended(old, new, element) ==
  /\ Len(old) \in Nat /\ Len(new) = Len(old) + 1
  /\ \A m \in 1 .. Len(old) : new[m] = old[m]
  /\ new[Len(old) + 1] = element

\* The last arguments are those of the tokens behind n, one more with each.
LEMMA OneMore ==
  ASSUME NEW n \in Nat, NEW next \in Nat, next > n, NEW old, NEW new, NEW argv,
         LastAre(old, argv, n, next), Extended(old, new, Plain(argv[next]))
  PROVE  LastAre(new, argv, n, next + 1)
<1>1. ASSUME NEW m \in n + 1 .. next
      PROVE  new[Len(new) - next + m] = Plain(argv[m])
  <2>1. CASE m = next
    BY <2>1 DEF Extended
  <2>2. CASE m # next
    <3> DEFINE length == Len(old)
    <3>1. m \in n + 1 .. next - 1 /\ Len(new) - next + m = Len(old) - (next - 1) + m
      <4>1. length \in Nat /\ Len(new) = length + 1
        BY DEF Extended
      <4> HIDE DEF length
      <4>2. m \in n + 1 .. next - 1 /\ length + 1 - next + m = length - (next - 1) + m
        BY <2>2, <4>1
      <4> QED
        BY <4>1, <4>2 DEF length
    <3>2. Len(old) - (next - 1) + m \in 1 .. Len(old)
      BY <3>1 DEF LastAre, Extended
    <3> QED
      BY <3>1, <3>2 DEF LastAre, Extended
  <2> QED
    BY <2>1, <2>2
<1> QED
  BY <1>1 DEF LastAre, Extended

\* An argument is added and the parser goes on, behind a "--" with the next
\* token and before one with a token that is no further than it.
LEMMA GoingOn ==
  ASSUME ParseInv, pc \in {"tokens", "chars"}, i <= Len(cfg.argv),
         NEW def \in DOMAIN cfg.args \cup {0}, NEW has_value \in BOOLEAN,
         NEW value \in Text, Emplaced(def, has_value, value),
         has_value = IF def = 0 THEN TRUE ELSE ~cfg.args[def].boolean,
         num_unnamed_args' = num_unnamed_args + IF def = 0 THEN 1 ELSE 0,
         num_unnamed_args' <= cfg.max_unnamed_args,
         pc' \in {"tokens", "chars"}, i' \in i .. Len(cfg.argv) + 1, read_ptr' \in Nat,
         UNCHANGED accept_dash_args,
         pc' = "chars" => i' = i /\ read_ptr' \in 1 .. Len(cfg.argv[i]) + 1,
         \A n \in DOMAIN cfg.argv : Ends(n) =>
           /\ pc' = "tokens"
           /\ i <= n => i' <= n
           /\ i > n => def = 0 /\ i' = i + 1 /\ value = cfg.argv[i]
  PROVE  ParseInv'
<1>1. Placed /\ Filled /\ Counting /\ Behind /\ cfg' = cfg /\ err' = err
  BY DEF ParseInv, Emplaced
<1>2. /\ Filled' /\ capacity' \in Nat
      /\ Len(parsed') = Len(parsed) + 1
      /\ \A n \in 1 .. Len(parsed) : parsed'[n] = parsed[n]
      /\ parsed'[Len(parsed) + 1] = [def |-> def, has_value |-> has_value, value |-> value]
      /\ Cardinality(UnnamedOnes') = Cardinality(UnnamedOnes) + IF def = 0 THEN 1 ELSE 0
  BY <1>1, Emplacing
<1>3. Placed'
  BY <1>1, <1>2 DEF Placed, Accepted, Configuration
<1>4. Counting'
  BY <1>1, <1>2 DEF Counting, Accepted, Placed
<1>5. Behind'
  <2>1. ASSUME NEW n \in DOMAIN cfg.argv, Ends(n)
        PROVE  /\ pc' # "chars"
               /\ accept_dash_args' <=> i' <= n
               /\ i' > n => LastAre(parsed', cfg.argv, n, i')
    <3>1. (accept_dash_args <=> i <= n) /\ (i > n => LastAre(parsed, cfg.argv, n, i))
      BY <1>1, <2>1 DEF Behind
    <3>2. i \in Nat /\ n \in Nat /\ Len(parsed) \in Nat /\ i' \in Int
      BY <1>1, <1>3, SMTT(30) DEF Placed, Filled, Configuration
    <3>3. /\ pc' = "tokens"
          /\ i <= n => i' <= n
          /\ i > n => def = 0 /\ i' = i + 1 /\ value = cfg.argv[i]
      BY <2>1
    <3>4. CASE i <= n
      <4>1. i' <= n
        BY <3>3, <3>4
      <4>2. ~(i' > n) /\ (accept_dash_args' <=> TRUE)
        BY <3>1, <3>2, <3>4, <4>1
      <4> QED
        BY <3>3, <4>1, <4>2
    <3>5. CASE i > n
      <4>1. i' = i + 1 /\ parsed'[Len(parsed) + 1] = Plain(cfg.argv[i])
        BY <1>2, <3>3, <3>5 DEF Plain
      <4>2. Extended(parsed, parsed', Plain(cfg.argv[i]))
        BY <1>2, <3>2, <4>1 DEF Extended
      <4>3. LastAre(parsed', cfg.argv, n, i + 1)
        BY <3>1, <3>2, <3>5, <4>2, OneMore
      <4>4. ~(i' <= n) /\ i' > n
        BY <3>2, <3>5, <4>1
      <4> QED
        BY <3>1, <3>2, <3>3, <3>5, <4>1, <4>3, <4>4
    <3> QED
      BY <3>2, <3>4, <3>5
  <2> QED
    BY <1>1, <2>1 DEF Behind, Ends
<1> QED
  BY <1>2, <1>3, <1>4, <1>5 DEF ParseInv

-----------------------------------------------------------------------------
(* The invariant holds in the initial states, and every step preserves it. *)

LEMMA ParseInitially == Init => ParseInv
<1> SUFFICES ASSUME Init PROVE ParseInv
  OBVIOUS
<1>1. PICK argv \in CommandLines, args \in Definitions, l \in Limits :
        cfg = [argv |-> argv, args |-> args, min_unnamed_args |-> l[1], max_unnamed_args |-> l[2]]
  BY DEF Init
<1>2. cfg \in Configuration
  <2>1. argv \in Seq(Text) /\ args \in Seq(Definition) /\ l[1] \in Nat /\ l[2] \in Nat
    BY ArgParseAssumption DEF Text, Definition
  <2> QED
    BY <1>1, <2>1 DEF Configuration
<1>3. Len(cfg.argv) \in Nat
  BY <1>2 DEF Configuration
<1>4. Placed
  BY <1>2, <1>3 DEF Init, Placed, Accepted
<1>5. Filled
  BY DEF Init, Filled, Argument
<1>6. UnnamedOnes = {}
  BY DEF Init, UnnamedOnes
<1>7. Counting
  BY <1>2, <1>6, FS_EmptySet DEF Init, Counting, Accepted, Configuration
<1>8. Behind
  BY <1>2 DEF Init, Behind, Configuration
<1> QED
  BY <1>4, <1>5, <1>7, <1>8 DEF ParseInv

\* A step of the parser that adds no argument.
LEMMA Passing ==
  ASSUME ParseInv, UNCHANGED <<cfg, num_unnamed_args, parsed, err>>,
         pc # "returned", pc' \in {"tokens", "chars", "checks"}, capacity' \in Nat, Len(parsed) <= capacity',
         i' \in i .. Len(cfg.argv) + 1, read_ptr' \in Nat, accept_dash_args' \in BOOLEAN,
         pc' = "chars" => i' <= Len(cfg.argv) /\ read_ptr' \in 1 .. Len(cfg.argv[i']) + 1,
         pc' = "checks" => i' = Len(cfg.argv) + 1,
         Behind'
  PROVE  ParseInv'
<1>1. Placed'
  BY DEF ParseInv, Placed, Accepted, Configuration
<1>2. Filled'
  BY DEF ParseInv, Filled, Argument
<1>3. Counting'
  BY DEF ParseInv, Placed, Counting, Accepted, UnnamedOnes
<1> QED
  BY <1>1, <1>2, <1>3 DEF ParseInv

LEMMA Beginning ==
  ASSUME ParseInv, Begin
  PROVE  ParseInv'
<1>1. pc = "called" /\ i = 1 /\ accept_dash_args = TRUE /\ capacity = 0 /\ parsed = << >> /\ cfg \in Configuration
  BY DEF ParseInv, Placed, Filled, Begin
<1>2. CASE Leave("INVALID_ARGUMENT")
  <2>1. Placed'
    BY <1>2 DEF ParseInv, Placed, Leave, Return, cursor, Accepted
  <2>2. Filled'
    BY <1>2 DEF ParseInv, Filled, Leave, Argument
  <2> QED
    BY <1>1, <1>2, <2>1, <2>2 DEF ParseInv, Counting, Behind, Leave, Return, Accepted
<1>3. CASE Leave("NOT_ENOUGH_MEMORY")
  BY <1>1, <1>3, RunningOut
<1>4. CASE pc' = "tokens" /\ capacity' = Len(cfg.argv) + 1 /\ UNCHANGED <<cfg, cursor, parsed, err, error_token>>
  <2>1. Len(cfg.argv) \in Nat /\ Len(parsed) = 0
    BY <1>1 DEF Configuration
  <2>2. Behind'
    BY <1>1, <1>4 DEF Behind, cursor, Configuration
  <2> QED
    BY <1>1, <1>4, <2>1, <2>2, Passing DEF ParseInv, Placed, cursor
<1> QED
  BY <1>2, <1>3, <1>4 DEF Begin

LEMMA EndingTokens ==
  ASSUME ParseInv, EndOfTokens
  PROVE  ParseInv'
<1>1. /\ pc = "tokens" /\ pc' = "checks" /\ i = Len(cfg.argv) + 1 /\ Len(cfg.argv) \in Nat
      /\ UNCHANGED <<cfg, i, read_ptr, accept_dash_args, num_unnamed_args, parsed, capacity, err>>
  BY DEF ParseInv, Placed, EndOfTokens, cursor, Configuration
<1>2. Behind'
  BY <1>1 DEF ParseInv, Behind, Ends
<1>3. read_ptr \in Nat /\ accept_dash_args \in BOOLEAN /\ capacity \in Nat /\ Len(parsed) <= capacity
  BY DEF ParseInv, Placed, Filled
<1>4. i' \in i .. Len(cfg.argv) + 1
  BY <1>1
<1> QED
  BY <1>1, <1>2, <1>3, <1>4, Passing

LEMMA EndingDashes ==
  ASSUME ParseInv, EndOfDashes
  PROVE  ParseInv'
<1>1. /\ pc = "tokens" /\ pc' = "tokens" /\ i <= Len(cfg.argv) /\ i' = i + 1 /\ read_ptr' = 0
      /\ accept_dash_args = TRUE /\ accept_dash_args' = FALSE
      /\ Len(cfg.argv[i]) = 2 /\ cfg.argv[i][1] = Dash
      /\ UNCHANGED <<cfg, num_unnamed_args, parsed, capacity, err>>
  BY DEF ParseInv, Placed, EndOfDashes, IsDoubleDash, NextToken, cur_arg
<1>2. cfg \in Configuration /\ i \in Nat /\ i >= 1 /\ Len(cfg.argv) \in Nat /\ Len(parsed) \in Nat
  BY DEF ParseInv, Placed, Filled, Configuration
<1>3. Behind'
  <2>1. ASSUME NEW n \in DOMAIN cfg.argv, Ends(n)
        PROVE  i = n
    <3>1. i <= n /\ n \in Nat
      BY <1>1, <1>2, <2>1 DEF ParseInv, Behind, Configuration
    <3>2. ~(i < n)
      BY <1>1, <1>2, <2>1, <3>1 DEF Ends
    <3> QED
      BY <1>2, <3>1, <3>2
  <2>2. LastAre(parsed, cfg.argv, i, i + 1)
    BY <1>2 DEF LastAre
  <2>3. i + 1 > i /\ ~(i + 1 <= i)
    BY <1>2
  <2> QED
    BY <1>1, <2>1, <2>2, <2>3 DEF Behind, Ends
<1>4. read_ptr \in Nat /\ accept_dash_args \in BOOLEAN /\ capacity \in Nat /\ Len(parsed) <= capacity
  BY DEF ParseInv, Placed, Filled
<1>5. i' \in i .. Len(cfg.argv) + 1
  BY <1>1, <1>2
<1> QED
  BY <1>1, <1>3, <1>4, <1>5, Passing

LEMMA Descending ==
  ASSUME ParseInv, SingleDash
  PROVE  ParseInv'
<1>1. /\ pc = "tokens" /\ pc' = "chars" /\ i <= Len(cfg.argv) /\ read_ptr' = 2
      /\ accept_dash_args /\ Len(cfg.argv[i]) > 1 /\ cur_arg[1] = Dash /\ ~IsDoubleDash
      /\ UNCHANGED <<cfg, i, accept_dash_args, num_unnamed_args, parsed, capacity, err>>
  BY DEF SingleDash, IsSingleDash, cur_arg
<1>2. cfg \in Configuration /\ i \in Nat /\ i >= 1 /\ Len(cfg.argv) \in Nat /\ i \in DOMAIN cfg.argv
  BY <1>1 DEF ParseInv, Placed, Configuration
<1>3. cur_arg # <<Dash, Dash>>
  BY <1>1 DEF IsDoubleDash
<1>4. \A n \in DOMAIN cfg.argv : ~Ends(n)
  BY <1>1, <1>3, NoEnd DEF ParseInv
<1>5. Behind'
  BY <1>1, <1>4 DEF Behind, Ends
<1>6. Len(cfg.argv[i]) \in Nat
  BY <1>2 DEF Configuration, Text
<1>7. read_ptr \in Nat /\ accept_dash_args \in BOOLEAN /\ capacity \in Nat /\ Len(parsed) <= capacity
  BY DEF ParseInv, Placed, Filled
<1>8. i' \in i .. Len(cfg.argv) + 1 /\ read_ptr' \in 1 .. Len(cfg.argv[i']) + 1
  BY <1>1, <1>2, <1>6
<1> QED
  BY <1>1, <1>5, <1>7, <1>8, Passing

\* The value of an argument is the next token, where it is not the last.
LEMMA Consuming ==
  ASSUME ParseInv, pc \in {"tokens", "chars"}, i <= Len(cfg.argv), NEW def \in DOMAIN cfg.args,
         ~cfg.args[def].boolean, \A n \in DOMAIN cfg.argv : ~Ends(n), ValueNext(def)
  PROVE  ParseInv'
<1>1. CASE Fail("ARG_MISSES_VALUE", cur_arg)
  BY <1>1, Failing
<1>2. CASE i # Len(cfg.argv) /\ Emplaced(def, TRUE, cfg.argv[i + 1]) /\ NextToken(2)
           /\ UNCHANGED <<accept_dash_args, num_unnamed_args>>
  <2>1. cfg \in Configuration /\ i \in Nat /\ i >= 1 /\ Len(cfg.argv) \in Nat /\ num_unnamed_args \in Nat
        /\ num_unnamed_args <= cfg.max_unnamed_args /\ def # 0
    BY DEF ParseInv, Placed, Configuration, Counting
  <2>2. i + 1 \in DOMAIN cfg.argv /\ i + 2 \in i .. Len(cfg.argv) + 1
    BY <1>2, <2>1 DEF Configuration
  <2>3. cfg.argv[i + 1] \in Text
    BY <2>1, <2>2 DEF Configuration
  <2>4. pc' = "tokens" /\ i' = i + 2 /\ read_ptr' = 0
    BY <1>2 DEF NextToken
  <2>5. num_unnamed_args' = num_unnamed_args + (IF def = 0 THEN 1 ELSE 0)
    BY <1>2, <2>1
  <2> QED
    BY <1>2, <2>1, <2>2, <2>3, <2>4, <2>5, GoingOn
<1> QED
  BY <1>1, <1>2 DEF ValueNext, LastToken

\* An argument with a name but without a value, or with the rest of its token.
LEMMA Naming ==
  ASSUME ParseInv, pc \in {"tokens", "chars"}, i <= Len(cfg.argv), NEW def \in DOMAIN cfg.args,
         \A n \in DOMAIN cfg.argv : ~Ends(n),
         NEW has_value \in BOOLEAN, has_value = ~cfg.args[def].boolean, NEW value \in Text,
         Emplaced(def, has_value, value), UNCHANGED <<accept_dash_args, num_unnamed_args>>,
         \/ NextToken(1)
         \/ pc = "chars" /\ read_ptr <= Len(cur_arg) /\ read_ptr' = read_ptr + 1 /\ UNCHANGED <<pc, i>>
  PROVE  ParseInv'
<1>1. cfg \in Configuration /\ i \in Nat /\ i >= 1 /\ Len(cfg.argv) \in Nat /\ num_unnamed_args \in Nat
      /\ num_unnamed_args <= cfg.max_unnamed_args /\ def # 0 /\ i \in DOMAIN cfg.argv
  BY DEF ParseInv, Placed, Configuration, Counting
<1>2. Len(cfg.argv[i]) \in Nat
  BY <1>1 DEF Configuration, Text
<1>3. num_unnamed_args' = num_unnamed_args + (IF def = 0 THEN 1 ELSE 0)
  BY <1>1
<1>4. /\ pc' \in {"tokens", "chars"} /\ i' \in i .. Len(cfg.argv) + 1 /\ read_ptr' \in Nat
      /\ pc' = "chars" => i' = i /\ read_ptr' \in 1 .. Len(cfg.argv[i]) + 1
  BY <1>1, <1>2, SMTT(30) DEF NextToken, ParseInv, Placed, cur_arg
<1> QED
  BY <1>1, <1>3, <1>4, GoingOn

LEMMA DoublyDashed ==
  ASSUME ParseInv, DoubleDash
  PROVE  ParseInv'
<1> DEFINE def == Named(cur_arg)
<1>1. /\ pc = "tokens" /\ i <= Len(cfg.argv) /\ accept_dash_args /\ cur_arg[1] = Dash /\ Len(cur_arg) > 2
      /\ cfg \in Configuration
  BY DEF DoubleDash, IsDoubleDash, ParseInv, Placed
<1>2. cur_arg # <<Dash, Dash>>
  <2> SUFFICES ASSUME cur_arg = <<Dash, Dash>> PROVE FALSE
    OBVIOUS
  <2>1. Len(cur_arg) = 2
    OBVIOUS
  <2>2. ~(2 > 2)
    OBVIOUS
  <2>3. Len(cur_arg) > 2
    BY <1>1
  <2> QED
    BY <2>1, <2>2, <2>3, Zenon
<1>3. \A n \in DOMAIN cfg.argv : ~Ends(n)
  BY <1>1, <1>2, NoEnd DEF ParseInv
<1>4. CASE OutOfMemory
  BY <1>1, <1>4, RunningOut DEF OutOfMemory
<1>5. CASE def = 0 /\ Fail("ARG_NOT_UNDERSTOOD", cur_arg)
  BY <1>1, <1>5, Failing
<1>6. CASE def # 0 /\ ~cfg.args[def].boolean /\ ValueNext(def)
  BY <1>1, <1>3, <1>6, Finding, Consuming
<1>7. CASE /\ def # 0 /\ cfg.args[def].boolean /\ Emplaced(def, FALSE, NoToken)
           /\ NextToken(1) /\ UNCHANGED <<accept_dash_args, num_unnamed_args>>
  <2>1. def \in DOMAIN cfg.args /\ NoToken \in Text
    BY <1>1, <1>7, Finding DEF NoToken, Text
  <2> HIDE DEF def
  <2>2. FALSE = ~cfg.args[def].boolean
    BY <1>7
  <2> QED
    BY <1>1, <1>3, <1>7, <2>1, <2>2, Naming
<1> QED
  BY <1>4, <1>5, <1>6, <1>7 DEF DoubleDash

LEMMA Lettering ==
  ASSUME ParseInv, Char
  PROVE  ParseInv'
<1> DEFINE def  == Lettered(cur_arg[read_ptr])
           rest == SubSeq(cur_arg, read_ptr + 1, Len(cur_arg))
<1>1. /\ pc = "chars" /\ read_ptr <= Len(cur_arg) /\ i <= Len(cfg.argv) /\ cfg \in Configuration
      /\ i \in DOMAIN cfg.argv /\ read_ptr \in Nat
  BY DEF Char, ParseInv, Placed, Configuration
<1>2. \A n \in DOMAIN cfg.argv : ~Ends(n)
  BY <1>1 DEF ParseInv, Behind
<1>3. rest \in Text
  <2>1. cur_arg \in Text
    BY <1>1 DEF cur_arg, Configuration
  <2> QED
    BY <1>1, <2>1 DEF Text
<1>4. def # 0 => def \in DOMAIN cfg.args
  BY <1>1, Finding DEF Lettered
<1> HIDE DEF def, rest
<1>5. CASE OutOfMemory
  BY <1>1, <1>5, RunningOut DEF OutOfMemory
<1>6. CASE def = 0 /\ Fail("ARG_NOT_UNDERSTOOD", cur_arg)
  BY <1>1, <1>6, Failing
<1>7. CASE /\ def # 0 /\ cfg.args[def].boolean /\ Emplaced(def, FALSE, NoToken)
           /\ read_ptr' = read_ptr + 1 /\ UNCHANGED <<pc, i, accept_dash_args, num_unnamed_args>>
  <2>1. NoToken \in Text /\ FALSE = ~cfg.args[def].boolean
    BY <1>7 DEF NoToken, Text
  <2> QED
    BY <1>1, <1>2, <1>4, <1>7, <2>1, Naming
<1>8. CASE def # 0 /\ ~cfg.args[def].boolean /\ ValueNext(def)
  BY <1>1, <1>2, <1>4, <1>8, Consuming
<1>9. CASE /\ def # 0 /\ ~cfg.args[def].boolean /\ Emplaced(def, TRUE, rest)
           /\ NextToken(1) /\ UNCHANGED <<accept_dash_args, num_unnamed_args>>
  <2>1. TRUE = ~cfg.args[def].boolean
    BY <1>9
  <2> QED
    BY <1>1, <1>2, <1>3, <1>4, <1>9, <2>1, Naming
<1> QED
  BY <1>5, <1>6, <1>7, <1>8, <1>9 DEF Char, def, rest

LEMMA Leftover ==
  ASSUME ParseInv, Unnamed
  PROVE  ParseInv'
<1>1. /\ pc \in {"tokens", "chars"} /\ i <= Len(cfg.argv) /\ cfg \in Configuration
      /\ i \in DOMAIN cfg.argv /\ i \in Nat /\ Len(cfg.argv) \in Nat /\ num_unnamed_args \in Nat
  BY DEF Unnamed, ParseInv, Placed, Configuration
<1>2. CASE Fail("TOO_MANY_ARGS", cur_arg)
  BY <1>1, <1>2, Failing
<1>3. CASE OutOfMemory
  BY <1>1, <1>3, RunningOut DEF OutOfMemory
<1>4. CASE /\ num_unnamed_args + 1 <= cfg.max_unnamed_args /\ num_unnamed_args' = num_unnamed_args + 1
           /\ Emplaced(0, TRUE, cur_arg) /\ NextToken(1) /\ UNCHANGED accept_dash_args
  <2>1. cur_arg \in Text /\ cur_arg = cfg.argv[i]
    BY <1>1 DEF cur_arg, Configuration
  <2>2. pc' = "tokens" /\ i' = i + 1 /\ read_ptr' = 0
    BY <1>4 DEF NextToken
  <2>3. ASSUME NEW n \in DOMAIN cfg.argv, Ends(n)
        PROVE  i <= n => i' <= n
    <3>1. accept_dash_args <=> i <= n
      BY <1>1, <2>3 DEF ParseInv, Behind
    <3>2. pc = "tokens"
      BY <1>1, <2>3 DEF ParseInv, Behind
    <3>3. n \in Nat
      BY <1>1 DEF Configuration
    <3>4. ASSUME i <= n PROVE i # n
      <4>1. ~IsDoubleDash /\ accept_dash_args
        BY <1>1, <3>1, <3>2, <3>4 DEF Unnamed
      <4>2. <<Dash, Dash>>[1] = Dash /\ <<Dash, Dash>>[2] = Dash /\ Len(<<Dash, Dash>>) = 2
        OBVIOUS
      <4> QED
        BY <2>1, <2>3, <4>1, <4>2 DEF IsDoubleDash, Ends
    <3> QED
      BY <1>1, <2>2, <3>3, <3>4
  <2>4. i' \in i .. Len(cfg.argv) + 1
    BY <1>1, <2>2
  <2> QED
    BY <1>1, <1>4, <2>1, <2>2, <2>3, <2>4, GoingOn
<1>5. num_unnamed_args + 1 > cfg.max_unnamed_args <=> ~(num_unnamed_args + 1 <= cfg.max_unnamed_args)
  BY <1>1 DEF Configuration
<1> QED
  BY <1>2, <1>3, <1>4, <1>5 DEF Unnamed

LEMMA Checking ==
  ASSUME ParseInv, Checks
  PROVE  ParseInv'
<1>1. pc = "checks"
  BY DEF Checks
<1>2. CASE \E token : Fail("TOO_FEW_ARGS", token) \/ Fail("REQUIRED_ARG_MISSING", token)
  BY <1>1, <1>2, Failing
<1>3. CASE /\ ~(num_unnamed_args < cfg.min_unnamed_args) /\ Missing = {}
           /\ Return("SUCCESS") /\ UNCHANGED <<cfg, cursor, parsed, capacity>>
  <2>1. Placed'
    BY <1>1, <1>3 DEF ParseInv, Placed, Return, cursor, Accepted
  <2>2. Filled'
    BY <1>3 DEF ParseInv, Filled, Argument
  <2>3. num_unnamed_args \in Nat /\ cfg.min_unnamed_args \in Nat
    BY DEF ParseInv, Placed, Configuration
  <2>4. Counting'
    BY <1>1, <1>3, <2>3 DEF ParseInv, Counting, Return, cursor, Accepted, UnnamedOnes, Missing
  <2>5. Behind'
    BY <1>1, <1>3 DEF ParseInv, Behind, Return, cursor, Accepted, Ends
  <2> QED
    BY <2>1, <2>2, <2>4, <2>5 DEF ParseInv
<1> QED
  BY <1>2, <1>3 DEF Checks

LEMMA ParseStep == ParseInv /\ [Next]_vars => ParseInv'
<1> SUFFICES ASSUME ParseInv, [Next]_vars PROVE ParseInv'
  OBVIOUS
<1>1. CASE UNCHANGED vars
  BY <1>1 DEF vars, ParseInv, Placed, Filled, Counting, Behind, Accepted, Argument, UnnamedOnes, Missing, Ends
<1> QED
  BY <1>1, Beginning, EndingTokens, EndingDashes, DoublyDashed, Descending, Lettering, Leftover, Checking
  DEF Next

LEMMA ParseInvHolds == Spec => []ParseInv
  BY ParseInitially, ParseStep, PTL DEF Spec

-----------------------------------------------------------------------------
(* Joining strings, and leaving their dashes out.                          *)

\* What FlattenSeq computes: f joins the first strings up to N.
Joined(f, s, n) == IF n = 1 THEN s[n] ELSE f[n - 1] \o s[n]
JoinsUpTo(f, s, N) == f = [n \in 1 .. N |-> Joined(f, s, n)]

LEMMA JoinsExist == ASSUME NEW s PROVE \A N \in Nat : \E f : JoinsUpTo(f, s, N)
<1> DEFINE T == {N \in Nat : \E f : JoinsUpTo(f, s, N)}
<1>1. 0 \in T
  <2> DEFINE f == [n \in 1 .. 0 |-> n]
  <2>1. f = [n \in 1 .. 0 |-> Joined(f, s, n)]
    OBVIOUS
  <2> HIDE DEF f
  <2> QED
    BY <2>1 DEF JoinsUpTo
<1>2. ASSUME NEW N \in T PROVE N + 1 \in T
  <2>1. PICK f : JoinsUpTo(f, s, N)
    OBVIOUS
  <2>2. N \in Nat
    OBVIOUS
  <2> DEFINE last == Joined(f, s, N + 1)
             g    == [n \in 1 .. N + 1 |-> IF n = N + 1 THEN last ELSE f[n]]
  <2>3. (\A n \in 1 .. N : g[n] = f[n]) /\ g[N + 1] = last
    BY <2>2
  <2>4. \A n \in 1 .. N : f[n] = Joined(f, s, n)
    BY <2>1, Zenon DEF JoinsUpTo
  <2>5. ASSUME NEW n \in 1 .. N + 1 PROVE Joined(g, s, n) = Joined(f, s, n)
    <3>1. CASE n = 1
      BY <3>1 DEF Joined
    <3>2. CASE n # 1
      <4>1. n - 1 \in 1 .. N
        BY <2>2, <3>2
      <4> QED
        BY <2>3, <4>1 DEF Joined
    <3> QED
      BY <3>1, <3>2
  <2>6. g = [n \in 1 .. N + 1 |-> g[n]]
    OBVIOUS
  <2>7. \A n \in 1 .. N + 1 : n \in 1 .. N \/ n = N + 1
    BY <2>2
  <2> HIDE DEF g
  <2>8. \A n \in 1 .. N + 1 : g[n] = Joined(g, s, n)
    BY <2>3, <2>4, <2>5, <2>7
  <2>9. g = [n \in 1 .. N + 1 |-> Joined(g, s, n)]
    BY <2>6, <2>8
  <2> QED
    BY <2>2, <2>9 DEF JoinsUpTo
<1> HIDE DEF T
<1>3. T = Nat
  BY <1>1, <1>2, Induction DEF T
<1> QED
  BY <1>3 DEF T

\* Functions that join the same strings agree as far as both go.
LEMMA JoinsAgree ==
  ASSUME NEW N \in Nat, NEW f, NEW s, JoinsUpTo(f, s, N),
         NEW g, NEW t, JoinsUpTo(g, t, N + 1), \A n \in 1 .. N : t[n] = s[n]
  PROVE  \A n \in 1 .. N : g[n] = f[n]
<1> DEFINE T == {n \in Nat : n \in 1 .. N => g[n] = f[n]}
<1>1. 0 \in T
  OBVIOUS
<1>2. ASSUME NEW n \in T PROVE n + 1 \in T
  <2> SUFFICES ASSUME n + 1 \in 1 .. N PROVE g[n + 1] = f[n + 1]
    OBVIOUS
  <2>1. n + 1 \in 1 .. N /\ n + 1 \in 1 .. N + 1 /\ (n + 1) - 1 = n
    OBVIOUS
  <2>2. f[n + 1] = Joined(f, s, n + 1) /\ g[n + 1] = Joined(g, t, n + 1)
    BY <2>1, Zenon DEF JoinsUpTo
  <2>3. n + 1 = 1 \/ f[n] = g[n]
    OBVIOUS
  <2> QED
    BY <2>1, <2>2, <2>3 DEF Joined
<1> HIDE DEF T
<1>3. T = Nat
  BY <1>1, <1>2, Induction DEF T
<1> QED
  BY <1>3 DEF T

\* Characters, texts and sequences of texts.  The provers see a sequence by its
\* length and elements here.
Characters == STRING
IsChar(c) == c \in Characters
IsText(s) == s \in Text
AreTexts(s) == s \in Seq(Text)

LEMMA SeqFacts ==
  ASSUME NEW S
  PROVE  /\ \A s \in Seq(S) : /\ Len(s) \in Nat /\ DOMAIN s = 1 .. Len(s) /\ s = [k \in 1 .. Len(s) |-> s[k]]
                              /\ \A k \in 1 .. Len(s) : s[k] \in S
         /\ \A n \in Nat : \A f : (\A k \in 1 .. n : f[k] \in S) =>
              [k \in 1 .. n |-> f[k]] \in Seq(S) /\ Len([k \in 1 .. n |-> f[k]]) = n
         /\ << >> \in Seq(S) /\ \A e \in S : <<e>> \in Seq(S)
         /\ \A s, t \in Seq(S) : s \o t \in Seq(S)
OBVIOUS

LEMMA Grown ==
  ASSUME NEW S, NEW s \in Seq(S), NEW e \in S
  PROVE  /\ Append(s, e) \in Seq(S) /\ Len(s) \in Nat /\ Len(Append(s, e)) = Len(s) + 1
         /\ Append(s, e)[Len(s) + 1] = e
         /\ \A k \in 1 .. Len(s) : Append(s, e)[k] = s[k]
BY AppendProperties

LEMMA TextIs ==
  ASSUME NEW s, IsText(s)
  PROVE  /\ Len(s) \in Nat /\ DOMAIN s = 1 .. Len(s) /\ s = [k \in 1 .. Len(s) |-> s[k]]
         /\ \A k \in 1 .. Len(s) : IsChar(s[k])
<1>1. s \in Seq(Characters)
  BY DEF IsText, Text, Characters
<1> QED
  BY <1>1, SeqFacts DEF IsChar

LEMMA TextsAre ==
  ASSUME NEW s, AreTexts(s)
  PROVE  /\ Len(s) \in Nat /\ DOMAIN s = 1 .. Len(s) /\ s = [k \in 1 .. Len(s) |-> s[k]]
         /\ \A k \in 1 .. Len(s) : IsText(s[k])
BY SeqFacts DEF IsText, AreTexts

LEMMA LongerText ==
  ASSUME NEW s, IsText(s), NEW c, IsChar(c)
  PROVE  /\ IsText(Append(s, c)) /\ Len(Append(s, c)) = Len(s) + 1 /\ Append(s, c)[Len(s) + 1] = c
         /\ \A k \in 1 .. Len(s) : Append(s, c)[k] = s[k]
<1>1. s \in Seq(Characters) /\ c \in Characters
  BY DEF IsText, Text, IsChar, Characters
<1>2. /\ Append(s, c) \in Seq(Characters) /\ Len(Append(s, c)) = Len(s) + 1 /\ Append(s, c)[Len(s) + 1] = c
      /\ \A k \in 1 .. Len(s) : Append(s, c)[k] = s[k]
  BY <1>1, Grown
<1> QED
  BY <1>2 DEF IsText, Text, Characters

LEMMA MoreTexts ==
  ASSUME NEW s, AreTexts(s), NEW x, IsText(x)
  PROVE  /\ AreTexts(Append(s, x)) /\ Len(Append(s, x)) = Len(s) + 1 /\ Append(s, x)[Len(s) + 1] = x
         /\ \A k \in 1 .. Len(s) : Append(s, x)[k] = s[k]
<1>1. s \in Seq(Text) /\ x \in Text
  BY DEF IsText, AreTexts
<1>2. /\ Append(s, x) \in Seq(Text) /\ Len(Append(s, x)) = Len(s) + 1 /\ Append(s, x)[Len(s) + 1] = x
      /\ \A k \in 1 .. Len(s) : Append(s, x)[k] = s[k]
  BY <1>1, Grown
<1> QED
  BY <1>2 DEF AreTexts

\* Joining no strings, and one more.
LEMMA FlattenIs ==
  ASSUME NEW s, AreTexts(s), Len(s) # 0
  PROVE  \E f : JoinsUpTo(f, s, Len(s)) /\ SeqX!FlattenSeq(s) = f[Len(s)]
<1> DEFINE f == CHOOSE f : f = [n \in 1 .. Len(s) |-> IF n = 1 THEN s[n] ELSE f[n - 1] \o s[n]]
<1>1. Len(s) \in Nat
  BY TextsAre
<1>2. \E g : g = [n \in 1 .. Len(s) |-> IF n = 1 THEN s[n] ELSE g[n - 1] \o s[n]]
  BY <1>1, JoinsExist, Zenon DEF JoinsUpTo, Joined
<1>3. f = [n \in 1 .. Len(s) |-> IF n = 1 THEN s[n] ELSE f[n - 1] \o s[n]]
  BY <1>2, Zenon
<1>4. SeqX!FlattenSeq(s) = f[Len(s)]
  BY Zenon DEF SeqX!FlattenSeq
<1> HIDE DEF f
<1> QED
  BY <1>3, <1>4, Zenon DEF JoinsUpTo, Joined

LEMMA FlattenNone == ASSUME NEW s, AreTexts(s), Len(s) = 0 PROVE SeqX!FlattenSeq(s) = << >>
<1>1. s = << >>
  <2>1. s \in Seq(Text)
    BY DEF AreTexts
  <2> QED
    BY <2>1, EmptySeq
<1>2. SeqX!FlattenSeq(s) = s
  BY Zenon DEF SeqX!FlattenSeq
<1> QED
  BY <1>1, <1>2

LEMMA Nothing == IsText(<< >>) /\ AreTexts(<< >>) /\ Len(<< >>) = 0
BY SeqFacts DEF IsText, AreTexts, Text

LEMMA NothingFirst == ASSUME NEW x, IsText(x) PROVE << >> \o x = x /\ x \o << >> = x
<1>1. x \in Seq(Characters)
  BY DEF IsText, Text, Characters
<1> QED
  BY <1>1, ConcatEmptySeq

LEMMA FlattenOneMore ==
  ASSUME NEW s, AreTexts(s), NEW x, IsText(x)
  PROVE  SeqX!FlattenSeq(Append(s, x)) = SeqX!FlattenSeq(s) \o x
<1> DEFINE t == Append(s, x)
<1>1. t = Append(s, x)
  OBVIOUS
<1> HIDE DEF t
<1>2. /\ AreTexts(t) /\ Len(t) = Len(s) + 1 /\ t[Len(s) + 1] = x
      /\ \A k \in 1 .. Len(s) : t[k] = s[k]
  <2>1. /\ AreTexts(Append(s, x)) /\ Len(Append(s, x)) = Len(s) + 1 /\ Append(s, x)[Len(s) + 1] = x
        /\ \A k \in 1 .. Len(s) : Append(s, x)[k] = s[k]
    BY MoreTexts, ZenonT(60)
  <2> QED
    BY <1>1, <2>1, Zenon
<1>3. Len(s) \in Nat /\ Len(t) # 0
  BY <1>2, TextsAre
<1>4. PICK g : JoinsUpTo(g, t, Len(t)) /\ SeqX!FlattenSeq(t) = g[Len(t)]
  BY <1>2, <1>3, FlattenIs
<1>5. g[Len(s) + 1] = Joined(g, t, Len(s) + 1)
  <2>1. Len(s) + 1 \in 1 .. Len(t)
    BY <1>2, <1>3
  <2> QED
    BY <1>4, <2>1, Zenon DEF JoinsUpTo
<1>6. CASE Len(s) = 0
  <2>1. SeqX!FlattenSeq(t) = x
    BY <1>2, <1>4, <1>5, <1>6 DEF Joined
  <2> QED
    BY <1>1, <1>6, <2>1, FlattenNone, NothingFirst
<1>7. CASE Len(s) # 0
  <2>1. PICK f : JoinsUpTo(f, s, Len(s)) /\ SeqX!FlattenSeq(s) = f[Len(s)]
    BY <1>7, FlattenIs
  <2>2. Len(s) \in 1 .. Len(s) /\ Len(s) + 1 # 1 /\ (Len(s) + 1) - 1 = Len(s)
    BY <1>3, <1>7
  <2>3. JoinsUpTo(g, t, Len(s) + 1)
    BY <1>2, <1>4
  <2>4. \A n \in 1 .. Len(s) : g[n] = f[n]
    BY <1>2, <1>3, <2>1, <2>3, JoinsAgree
  <2>5. g[Len(s) + 1] = g[Len(s)] \o x
    BY <1>2, <1>5, <2>2 DEF Joined
  <2> QED
    BY <1>1, <1>2, <1>4, <2>1, <2>2, <2>4, <2>5
<1> QED
  BY <1>6, <1>7

LEMMA JoinedText == ASSUME NEW s, IsText(s), NEW t, IsText(t) PROVE IsText(s \o t)
<1>1. s \in Seq(Characters) /\ t \in Seq(Characters)
  BY DEF IsText, Text, Characters
<1>2. s \o t \in Seq(Characters)
  BY <1>1, SeqFacts
<1> QED
  BY <1>2 DEF IsText, Text, Characters

\* Every sequence that is not empty is a shorter one and an element.
LEMMA Shorter ==
  ASSUME NEW S, NEW u \in Seq(S), NEW n \in Nat, Len(u) = n + 1
  PROVE  \E v \in Seq(S), x \in S : u = Append(v, x) /\ Len(v) = n
<1>1. u # << >>
  OBVIOUS
<1>2. PICK v \in Seq(S), x \in S : u = Append(v, x)
  BY <1>1, SequenceEmptyOrAppend
<1>3. Len(u) = Len(v) + 1 /\ Len(v) \in Nat
  BY <1>2, AppendProperties
<1> QED
  BY <1>2, <1>3

LEMMA ShorterText ==
  ASSUME NEW s, IsText(s), NEW n \in Nat, Len(s) = n + 1
  PROVE  \E t, c : IsText(t) /\ IsChar(c) /\ s = Append(t, c) /\ Len(t) = n
<1>1. s \in Seq(Characters)
  BY DEF IsText, Text, Characters
<1>2. PICK v \in Seq(Characters), x \in Characters : s = Append(v, x) /\ Len(v) = n
  BY <1>1, Shorter
<1>3. IsText(v) /\ IsChar(x)
  BY <1>2 DEF IsText, Text, Characters, IsChar
<1> QED
  BY <1>2, <1>3

LEMMA FewerTexts ==
  ASSUME NEW s, AreTexts(s), NEW n \in Nat, Len(s) = n + 1
  PROVE  \E t, x : AreTexts(t) /\ IsText(x) /\ s = Append(t, x) /\ Len(t) = n
<1>1. s \in Seq(Text)
  BY DEF AreTexts
<1>2. PICK v \in Seq(Text), x \in Text : s = Append(v, x) /\ Len(v) = n
  BY <1>1, Shorter
<1> QED
  BY <1>2 DEF IsText, AreTexts

LEMMA FlattenType ==
  ASSUME NEW s, AreTexts(s)
  PROVE  IsText(SeqX!FlattenSeq(s))
<1> DEFINE T == {n \in Nat : \A u : AreTexts(u) /\ Len(u) = n => IsText(SeqX!FlattenSeq(u))}
<1>1. 0 \in T
  BY FlattenNone, Nothing
<1>2. ASSUME NEW n \in T PROVE n + 1 \in T
  <2> SUFFICES ASSUME NEW u, AreTexts(u), Len(u) = n + 1
               PROVE  IsText(SeqX!FlattenSeq(u))
    OBVIOUS
  <2>1. PICK t, x : AreTexts(t) /\ IsText(x) /\ u = Append(t, x) /\ Len(t) = n
    BY FewerTexts
  <2>2. IsText(SeqX!FlattenSeq(t))
    BY <2>1
  <2>3. SeqX!FlattenSeq(u) = SeqX!FlattenSeq(t) \o x
    BY <2>1, FlattenOneMore
  <2> QED
    BY <2>1, <2>2, <2>3, JoinedText
<1> HIDE DEF T
<1>3. T = Nat
  BY <1>1, <1>2, Induction DEF T
<1>4. Len(s) \in T
  BY <1>3, TextsAre
<1> QED
  BY <1>4 DEF T

\* A dash adds no letter, another character itself.
Kept(c) == IF c = Dash THEN << >> ELSE <<c>>
PiecesOf(string) == [k \in DOMAIN string |-> IF string[k] = Dash THEN << >> ELSE <<string[k]>>]

LEMMA KeptType == ASSUME NEW c, IsChar(c) PROVE IsText(Kept(c))
<1>1. << >> \in Seq(Characters) /\ <<c>> \in Seq(Characters)
  BY SeqFacts DEF IsChar
<1>2. IsText(<< >>) /\ IsText(<<c>>)
  BY <1>1 DEF IsText, Text, Characters
<1> QED
  BY <1>2, Zenon DEF Kept

LEMMA PiecesAre ==
  ASSUME NEW s, IsText(s)
  PROVE  /\ AreTexts(PiecesOf(s)) /\ Len(PiecesOf(s)) = Len(s)
         /\ \A k \in 1 .. Len(s) : PiecesOf(s)[k] = Kept(s[k])
<1>1. Len(s) \in Nat /\ DOMAIN s = 1 .. Len(s) /\ \A k \in 1 .. Len(s) : IsChar(s[k])
  BY TextIs
<1>2. PiecesOf(s) = [k \in 1 .. Len(s) |-> Kept(s[k])]
  BY <1>1, Zenon DEF PiecesOf, Kept
<1>3. \A k \in 1 .. Len(s) : PiecesOf(s)[k] = Kept(s[k])
  BY <1>2
<1>4. \A k \in 1 .. Len(s) : PiecesOf(s)[k] \in Text
  BY <1>1, <1>3, KeptType DEF IsText
<1>5. PiecesOf(s) = [k \in 1 .. Len(s) |-> PiecesOf(s)[k]]
  BY <1>2
<1>6. PiecesOf(s) \in Seq(Text) /\ Len(PiecesOf(s)) = Len(s)
  BY <1>1, <1>4, <1>5, SeqFacts
<1> QED
  BY <1>3, <1>6 DEF AreTexts

LEMMA SameTexts ==
  ASSUME NEW s, AreTexts(s), NEW t, AreTexts(t), Len(s) = Len(t),
         \A k \in 1 .. Len(s) : s[k] = t[k]
  PROVE  s = t
<1>1. s = [k \in 1 .. Len(s) |-> s[k]] /\ t = [k \in 1 .. Len(t) |-> t[k]]
  BY TextsAre
<1> QED
  BY <1>1

LEMMA PiecesOneMore ==
  ASSUME NEW s, IsText(s), NEW c, IsChar(c)
  PROVE  PiecesOf(Append(s, c)) = Append(PiecesOf(s), Kept(c))
<1> DEFINE a == Append(s, c)
           q == Append(PiecesOf(s), Kept(c))
<1>1. a = Append(s, c) /\ q = Append(PiecesOf(s), Kept(c))
  OBVIOUS
<1> HIDE DEF a, q
<1>2. /\ IsText(a) /\ Len(a) = Len(s) + 1 /\ a[Len(s) + 1] = c /\ Len(s) \in Nat
      /\ \A k \in 1 .. Len(s) : a[k] = s[k]
  <2>1. /\ IsText(Append(s, c)) /\ Len(Append(s, c)) = Len(s) + 1 /\ Append(s, c)[Len(s) + 1] = c
        /\ \A k \in 1 .. Len(s) : Append(s, c)[k] = s[k]
    BY LongerText, ZenonT(60)
  <2> QED
    BY <1>1, <2>1, TextIs, Zenon
<1>3. /\ AreTexts(PiecesOf(s)) /\ Len(PiecesOf(s)) = Len(s)
      /\ \A k \in 1 .. Len(s) : PiecesOf(s)[k] = Kept(s[k])
  BY PiecesAre
<1>4. /\ AreTexts(PiecesOf(a)) /\ Len(PiecesOf(a)) = Len(s) + 1
      /\ \A k \in 1 .. Len(s) + 1 : PiecesOf(a)[k] = Kept(a[k])
  BY <1>2, PiecesAre
<1>5. /\ AreTexts(q) /\ Len(q) = Len(s) + 1 /\ q[Len(s) + 1] = Kept(c)
      /\ \A k \in 1 .. Len(s) : q[k] = PiecesOf(s)[k]
  <2>1. IsText(Kept(c)) /\ AreTexts(PiecesOf(s)) /\ Len(PiecesOf(s)) = Len(s)
    BY <1>3, KeptType
  <2> DEFINE p == PiecesOf(s)
             e == Kept(c)
  <2>2. AreTexts(p) /\ IsText(e) /\ q = Append(p, e)
    BY <1>1, <2>1
  <2> HIDE DEF p, e
  <2>3. /\ AreTexts(Append(p, e)) /\ Len(Append(p, e)) = Len(p) + 1 /\ Append(p, e)[Len(p) + 1] = e
        /\ \A k \in 1 .. Len(p) : Append(p, e)[k] = p[k]
    BY <2>2, MoreTexts, ZenonT(60)
  <2>4. /\ AreTexts(q) /\ Len(q) = Len(p) + 1 /\ q[Len(p) + 1] = e
        /\ \A k \in 1 .. Len(p) : q[k] = p[k]
    BY <2>2, <2>3, Zenon
  <2> QED
    BY <2>1, <2>4 DEF p, e
<1>6. \A k \in 1 .. Len(s) + 1 : k \in 1 .. Len(s) \/ k = Len(s) + 1
  BY <1>2
<1>7. \A k \in 1 .. Len(s) + 1 : PiecesOf(a)[k] = q[k]
  BY <1>2, <1>3, <1>4, <1>5, <1>6
<1> QED
  BY <1>1, <1>4, <1>5, <1>7, SameTexts

LEMMA LettersOfIs ==
  ASSUME NEW s, IsText(s)
  PROVE  /\ LettersOf(s) = SeqX!FlattenSeq(PiecesOf(s))
         /\ IsText(LettersOf(s))
         /\ Len(s) = 0 => LettersOf(s) = << >>
<1>1. LettersOf(s) = SeqX!FlattenSeq(PiecesOf(s))
  BY DEF LettersOf, PiecesOf
<1> QED
  BY <1>1, PiecesAre, FlattenType, FlattenNone

LEMMA LettersOfOneMore ==
  ASSUME NEW s, IsText(s), NEW c, IsChar(c)
  PROVE  LettersOf(Append(s, c)) = LettersOf(s) \o Kept(c)
<1>1. IsText(Append(s, c)) /\ AreTexts(PiecesOf(s)) /\ IsText(Kept(c))
  BY LongerText, PiecesAre, KeptType, Zenon
<1>2. LettersOf(Append(s, c)) = SeqX!FlattenSeq(Append(PiecesOf(s), Kept(c)))
  BY <1>1, LettersOfIs, PiecesOneMore, Zenon
<1>3. LettersOf(s) = SeqX!FlattenSeq(PiecesOf(s))
  BY LettersOfIs
<1> QED
  BY <1>1, <1>2, <1>3, FlattenOneMore, Zenon

LEMMA Associative ==
  ASSUME NEW a, IsText(a), NEW b, IsText(b), NEW c, IsText(c)
  PROVE  (a \o b) \o c = a \o (b \o c)
<1>1. a \in Seq(Characters) /\ b \in Seq(Characters) /\ c \in Seq(Characters)
  BY DEF IsText, Text, Characters
<1> QED
  BY <1>1, ConcatAssociative

LEMMA JoinedLonger ==
  ASSUME NEW s, IsText(s), NEW t, IsText(t), NEW c, IsChar(c)
  PROVE  s \o Append(t, c) = Append(s \o t, c)
<1>1. s \in Seq(Characters) /\ t \in Seq(Characters) /\ c \in Characters
  BY DEF IsText, Text, Characters, IsChar
<1>2. <<c>> \in Seq(Characters) /\ s \o t \in Seq(Characters)
  BY <1>1, SeqFacts
<1>3. Append(t, c) = t \o <<c>> /\ Append(s \o t, c) = (s \o t) \o <<c>>
  BY <1>1, <1>2, AppendIsConcat
<1> QED
  BY <1>1, <1>2, <1>3, ConcatAssociative

\* The letters of two texts in a row are those of one and those of the other.
LEMMA LettersOfJoined ==
  ASSUME NEW s, IsText(s), NEW t, IsText(t)
  PROVE  LettersOf(s \o t) = LettersOf(s) \o LettersOf(t)
<1> DEFINE T == {n \in Nat : \A u : IsText(u) /\ Len(u) = n =>
                                LettersOf(s \o u) = LettersOf(s) \o LettersOf(u)}
<1>1. 0 \in T
  <2> SUFFICES ASSUME NEW u, IsText(u), Len(u) = 0
               PROVE  LettersOf(s \o u) = LettersOf(s) \o LettersOf(u)
    OBVIOUS
  <2>1. u = << >>
    <3>1. u \in Seq(Characters)
      BY DEF IsText, Text, Characters
    <3> QED
      BY <3>1, EmptySeq
  <2>2. LettersOf(u) = << >> /\ IsText(LettersOf(s))
    BY LettersOfIs
  <2>3. s \o << >> = s /\ LettersOf(s) \o << >> = LettersOf(s)
    BY <2>2, NothingFirst
  <2> QED
    BY <2>1, <2>2, <2>3, Zenon
<1>2. ASSUME NEW n \in T PROVE n + 1 \in T
  <2> SUFFICES ASSUME NEW u, IsText(u), Len(u) = n + 1
               PROVE  LettersOf(s \o u) = LettersOf(s) \o LettersOf(u)
    OBVIOUS
  <2>1. PICK v, c : IsText(v) /\ IsChar(c) /\ u = Append(v, c) /\ Len(v) = n
    BY ShorterText
  <2>2. LettersOf(s \o v) = LettersOf(s) \o LettersOf(v)
    BY <2>1
  <2>3. IsText(s \o v) /\ IsText(Kept(c)) /\ IsText(LettersOf(s)) /\ IsText(LettersOf(v))
    BY <2>1, JoinedText, KeptType, LettersOfIs
  <2>4. s \o u = Append(s \o v, c)
    <3>1. s \o Append(v, c) = Append(s \o v, c)
      BY <2>1, JoinedLonger
    <3> QED
      BY <2>1, <3>1, Zenon
  <2>5. LettersOf(s \o u) = LettersOf(s \o v) \o Kept(c) /\ LettersOf(u) = LettersOf(v) \o Kept(c)
    BY <2>1, <2>3, <2>4, LettersOfOneMore, Zenon
  <2>6. (LettersOf(s) \o LettersOf(v)) \o Kept(c) = LettersOf(s) \o (LettersOf(v) \o Kept(c))
    <3> DEFINE a == LettersOf(s)
               b == LettersOf(v)
               e == Kept(c)
    <3>1. IsText(a) /\ IsText(b) /\ IsText(e)
      BY <2>3
    <3> HIDE DEF a, b, e
    <3>2. (a \o b) \o e = a \o (b \o e)
      BY <3>1, Associative, SMTT(30)
    <3> QED
      BY <3>2 DEF a, b, e
  <2> QED
    BY <2>2, <2>5, <2>6, Zenon
<1> HIDE DEF T
<1>3. T = Nat
  BY <1>1, <1>2, Induction DEF T
<1>4. Len(t) \in T
  BY <1>3, TextIs
<1> QED
  BY <1>4 DEF T

LEMMA LettersOfOne == ASSUME NEW c, IsChar(c) PROVE LettersOf(<<c>>) = Kept(c) /\ IsText(<<c>>)
<1>1. <<c>> = Append(<< >>, c)
  OBVIOUS
<1>2. LettersOf(<< >>) = << >>
  BY LettersOfIs, Nothing
<1>3. LettersOf(<<c>>) = << >> \o Kept(c)
  BY <1>1, <1>2, Nothing, LettersOfOneMore, Zenon
<1>4. IsText(<<c>>)
  <2>1. <<c>> \in Seq(Characters)
    BY SeqFacts DEF IsChar
  <2> QED
    BY <2>1 DEF IsText, Text, Characters
<1> QED
  BY <1>3, <1>4, KeptType, NothingFirst, Zenon

LEMMA LettersOfDashed ==
  ASSUME IsChar(Dash), NEW c, IsChar(c)
  PROVE  LettersOf(<<Dash, c>>) = Kept(c) /\ LettersOf(<<Dash>>) = << >>
<1>1. LettersOf(<<Dash>>) = << >> /\ IsText(<<Dash>>)
  BY LettersOfOne DEF Kept
<1>2. <<Dash, c>> = Append(<<Dash>>, c)
  OBVIOUS
<1>3. LettersOf(<<Dash, c>>) = << >> \o Kept(c)
  BY <1>1, <1>2, LettersOfOneMore, Zenon
<1> QED
  BY <1>1, <1>3, KeptType, NothingFirst, Zenon

\* The letters of some texts, and of one more.
LEMMA LettersAre ==
  ASSUME NEW s, AreTexts(s)
  PROVE  /\ IsText(Letters(s))
         /\ Len(s) = 0 => Letters(s) = << >>
         /\ \A x : IsText(x) => Letters(Append(s, x)) = Letters(s) \o LettersOf(x)
<1> DEFINE Each(u) == [n \in DOMAIN u |-> LettersOf(u[n])]
<1>1. ASSUME NEW u, AreTexts(u)
      PROVE  /\ AreTexts(Each(u)) /\ Len(Each(u)) = Len(u) /\ Letters(u) = SeqX!FlattenSeq(Each(u))
             /\ \A n \in 1 .. Len(u) : Each(u)[n] = LettersOf(u[n])
  <2>1. Len(u) \in Nat /\ DOMAIN u = 1 .. Len(u) /\ \A n \in 1 .. Len(u) : IsText(u[n])
    BY <1>1, TextsAre
  <2>2. \A n \in 1 .. Len(u) : LettersOf(u[n]) \in Text
    BY <2>1, LettersOfIs DEF IsText
  <2>3. Each(u) = [n \in 1 .. Len(u) |-> LettersOf(u[n])]
    BY <2>1, Zenon
  <2>4. \A n \in 1 .. Len(u) : Each(u)[n] = LettersOf(u[n])
    BY <2>3
  <2>5. Letters(u) = SeqX!FlattenSeq(Each(u))
    BY DEF Letters
  <2>6. Each(u) = [n \in 1 .. Len(u) |-> Each(u)[n]]
    BY <2>3
  <2> HIDE DEF Each
  <2>7. Each(u) \in Seq(Text) /\ Len(Each(u)) = Len(u)
    BY <2>1, <2>2, <2>4, <2>6, SeqFacts
  <2> QED
    BY <2>4, <2>5, <2>7 DEF AreTexts
<1> HIDE DEF Each
<1>2. IsText(Letters(s)) /\ (Len(s) = 0 => Letters(s) = << >>)
  BY <1>1, FlattenType, FlattenNone
<1>3. ASSUME NEW x, IsText(x)
      PROVE  Letters(Append(s, x)) = Letters(s) \o LettersOf(x)
  <2> DEFINE t == Append(s, x)
             q == Append(Each(s), LettersOf(x))
             y == LettersOf(x)
             p == Each(s)
  <2>1. t = Append(s, x) /\ q = Append(p, y) /\ IsText(y) /\ AreTexts(p)
    BY <1>1, <1>3, LettersOfIs
  <2> HIDE DEF t, q, y, p
  <2>2. /\ AreTexts(Append(s, x)) /\ Len(Append(s, x)) = Len(s) + 1 /\ Append(s, x)[Len(s) + 1] = x
        /\ \A k \in 1 .. Len(s) : Append(s, x)[k] = s[k]
    BY <1>3, MoreTexts, ZenonT(60)
  <2>3. /\ AreTexts(Append(p, y)) /\ Len(Append(p, y)) = Len(p) + 1 /\ Append(p, y)[Len(p) + 1] = y
        /\ \A k \in 1 .. Len(p) : Append(p, y)[k] = p[k]
    BY <2>1, MoreTexts, ZenonT(60)
  <2>4. /\ AreTexts(t) /\ Len(t) = Len(s) + 1 /\ t[Len(s) + 1] = x /\ Len(s) \in Nat
        /\ \A k \in 1 .. Len(s) : t[k] = s[k]
    BY <2>1, <2>2, TextsAre, Zenon
  <2>5. /\ AreTexts(q) /\ Len(q) = Len(p) + 1 /\ q[Len(p) + 1] = y
        /\ \A k \in 1 .. Len(p) : q[k] = p[k]
    BY <2>1, <2>3, Zenon
  <2>6. /\ Len(p) = Len(s) /\ \A k \in 1 .. Len(s) : p[k] = LettersOf(s[k])
        /\ Letters(s) = SeqX!FlattenSeq(p)
    BY <1>1 DEF p
  <2>7. /\ AreTexts(Each(t)) /\ Len(Each(t)) = Len(s) + 1 /\ Letters(t) = SeqX!FlattenSeq(Each(t))
        /\ \A n \in 1 .. Len(s) + 1 : Each(t)[n] = LettersOf(t[n])
    BY <1>1, <2>4
  <2>8. \A k \in 1 .. Len(s) + 1 : k \in 1 .. Len(s) \/ k = Len(s) + 1
    BY <2>4
  <2>9. \A k \in 1 .. Len(s) + 1 : Each(t)[k] = q[k]
    BY <2>4, <2>5, <2>6, <2>7, <2>8 DEF y
  <2>10. Each(t) = q
    BY <2>5, <2>6, <2>7, <2>9, SameTexts
  <2>11. SeqX!FlattenSeq(Append(p, y)) = SeqX!FlattenSeq(p) \o y
    BY <2>1, FlattenOneMore, Zenon
  <2>12. Letters(t) = Letters(s) \o y
    BY <2>1, <2>6, <2>7, <2>10, <2>11, Zenon
  <2> QED
    BY <2>12 DEF t, y
<1> QED
  BY <1>2, <1>3

\* What was read so far, and what was made of it.
ReadTokens == SubSeq(cfg.argv, 1, i - 1)
ReadChars == IF pc = "chars" THEN SubSeq(cfg.argv[i], 1, read_ptr - 1) ELSE << >>
Spellings == [n \in DOMAIN parsed |-> Spelled(parsed[n])]

NoneAllBoolean == \A n \in DOMAIN cfg.argv : ~AllBoolean(cfg.argv[n])

\* The letters of what was read are those of the arguments, and the characters
\* of a token that was read in part are boolean arguments.
Taking ==
  NoneAllBoolean /\ (pc # "returned" \/ Accepted) =>
    /\ Letters(Spellings) = Letters(ReadTokens) \o LettersOf(ReadChars)
    /\ pc = "chars" =>
         /\ Len(cfg.argv[i]) > 1 /\ cfg.argv[i][1] = Dash /\ read_ptr >= 2
         /\ \A k \in 2 .. read_ptr - 1 : Lettered(cfg.argv[i][k]) # 0
                                         /\ cfg.args[Lettered(cfg.argv[i][k])].boolean

LEMMA TokenIs ==
  ASSUME cfg \in Configuration, NEW n \in 1 .. Len(cfg.argv)
  PROVE  IsText(cfg.argv[n]) /\ AreTexts(cfg.argv) /\ Len(cfg.argv[n]) \in Nat
<1>1. cfg.argv \in Seq(Text)
  BY DEF Configuration
<1>2. AreTexts(cfg.argv)
  BY <1>1 DEF AreTexts
<1> QED
  BY <1>2, TextsAre, TextIs

\* One token more is read.
LEMMA TokensOneMore ==
  ASSUME NEW s, AreTexts(s), NEW n \in Nat, n + 1 <= Len(s)
  PROVE  /\ Letters(SubSeq(s, 1, n + 1)) = Letters(SubSeq(s, 1, n)) \o LettersOf(s[n + 1])
         /\ IsText(Letters(SubSeq(s, 1, n)))
<1>1. s \in Seq(Text) /\ Len(s) \in Nat
  BY TextsAre DEF AreTexts
<1>2. SubSeq(s, 1, n) \in Seq(Text) /\ SubSeq(s, 1, n + 1) = Append(SubSeq(s, 1, n), s[n + 1])
  BY <1>1
<1>3. AreTexts(SubSeq(s, 1, n)) /\ IsText(s[n + 1])
  <2>1. n + 1 \in 1 .. Len(s)
    BY <1>1
  <2> QED
    BY <1>2, <2>1, TextsAre DEF AreTexts
<1>4. Letters(Append(SubSeq(s, 1, n), s[n + 1])) = Letters(SubSeq(s, 1, n)) \o LettersOf(s[n + 1])
  BY <1>3, LettersAre
<1>5. IsText(Letters(SubSeq(s, 1, n)))
  BY <1>3, LettersAre
<1> QED
  BY <1>2, <1>4, <1>5, Zenon

\* One character more of a token is read, or the rest of it.
LEMMA CharsOneMore ==
  ASSUME NEW s, IsText(s), NEW k \in 1 .. Len(s)
  PROVE  /\ LettersOf(SubSeq(s, 1, k)) = LettersOf(SubSeq(s, 1, k - 1)) \o Kept(s[k])
         /\ LettersOf(s) = LettersOf(SubSeq(s, 1, k)) \o LettersOf(SubSeq(s, k + 1, Len(s)))
         /\ IsText(LettersOf(SubSeq(s, 1, k - 1))) /\ IsText(SubSeq(s, k + 1, Len(s)))
         /\ IsChar(s[k])
         /\ k = Len(s) => LettersOf(s) = LettersOf(SubSeq(s, 1, k - 1)) \o Kept(s[k])
<1>1. s \in Seq(Characters) /\ Len(s) \in Nat /\ IsChar(s[k])
  BY TextIs DEF IsText, Text, Characters
<1>2. /\ SubSeq(s, 1, k - 1) \in Seq(Characters) /\ SubSeq(s, 1, k) \in Seq(Characters)
      /\ SubSeq(s, k + 1, Len(s)) \in Seq(Characters)
      /\ SubSeq(s, 1, k) = Append(SubSeq(s, 1, k - 1), s[k])
      /\ k = Len(s) => SubSeq(s, 1, k) = s
  BY <1>1, SMTT(30)
<1>3. IsText(SubSeq(s, 1, k - 1)) /\ IsText(SubSeq(s, 1, k)) /\ IsText(SubSeq(s, k + 1, Len(s)))
  BY <1>2 DEF IsText, Text, Characters
<1>4. s = SubSeq(s, 1, k) \o SubSeq(s, k + 1, Len(s))
  <2>1. SubSeq(s, 1, Len(s)) = s
    BY <1>1, SubSeqFull
  <2>2. SubSeq(s, 1, k) \o SubSeq(s, k + 1, Len(s)) = SubSeq(s, 1, Len(s))
    BY <1>1, ConcatAdjacentSubSeq
  <2> QED
    BY <2>1, <2>2, Zenon
<1>5. LettersOf(Append(SubSeq(s, 1, k - 1), s[k])) = LettersOf(SubSeq(s, 1, k - 1)) \o Kept(s[k])
  BY <1>1, <1>3, LettersOfOneMore
<1>6. LettersOf(SubSeq(s, 1, k) \o SubSeq(s, k + 1, Len(s))) = LettersOf(SubSeq(s, 1, k)) \o LettersOf(SubSeq(s, k + 1, Len(s)))
  BY <1>3, LettersOfJoined
<1> QED
  BY <1>1, <1>2, <1>3, <1>4, <1>5, <1>6, LettersOfIs, Zenon

\* How arguments are spelled.
LEMMA SpelledIs ==
  ASSUME cfg \in Configuration, NEW arg \in Argument
  PROVE  /\ IsText(Spelled(arg)) /\ IsText(arg.value)
         /\ arg.def = 0 => LettersOf(Spelled(arg)) = LettersOf(arg.value)
         /\ arg.def # 0 => /\ IsText(cfg.args[arg.def].name)
                           /\ LettersOf(Spelled(arg)) = LettersOf(cfg.args[arg.def].name) \o LettersOf(arg.value)
<1>1. IsText(arg.value) /\ arg.def \in DOMAIN cfg.args \cup {0}
  BY SMTT(30) DEF Argument, IsText
<1>2. CASE arg.def = 0
  <2>1. Spelled(arg) = << >> \o arg.value
    BY <1>2, SMTT(30) DEF Spelled
  <2> QED
    BY <1>1, <1>2, <2>1, NothingFirst
<1>3. CASE arg.def # 0
  <2>1. cfg.args \in Seq(Definition) /\ arg.def \in DOMAIN cfg.args
    BY <1>1, <1>3 DEF Configuration
  <2>2. IsText(cfg.args[arg.def].name)
    <3>1. cfg.args[arg.def] \in Definition
      BY <2>1
    <3>2. cfg.args[arg.def].name \in Text
      BY <3>1 DEF Definition
    <3> QED
      BY <3>2 DEF IsText
  <2>3. Spelled(arg) = cfg.args[arg.def].name \o arg.value
    BY <1>3 DEF Spelled
  <2> QED
    BY <1>1, <1>3, <2>2, <2>3, JoinedText, LettersOfJoined
<1> QED
  BY <1>2, <1>3

Spelt(args) == [n \in DOMAIN args |-> Spelled(args[n])]

LEMMA SpeltAre ==
  ASSUME cfg \in Configuration, NEW args \in Seq(Argument)
  PROVE  /\ AreTexts(Spelt(args)) /\ Len(Spelt(args)) = Len(args)
         /\ \A n \in 1 .. Len(args) : Spelt(args)[n] = Spelled(args[n])
<1>1. Len(args) \in Nat /\ DOMAIN args = 1 .. Len(args) /\ \A n \in 1 .. Len(args) : args[n] \in Argument
  OBVIOUS
<1>2. \A n \in 1 .. Len(args) : Spelled(args[n]) \in Text
  BY <1>1, SpelledIs DEF IsText
<1>3. Spelt(args) = [n \in 1 .. Len(args) |-> Spelled(args[n])]
  BY <1>1, Zenon DEF Spelt
<1>4. \A n \in 1 .. Len(args) : Spelt(args)[n] = Spelled(args[n])
  BY <1>3
<1>5. Spelt(args) = [n \in 1 .. Len(args) |-> Spelt(args)[n]]
  BY <1>3
<1>6. Spelt(args) \in Seq(Text) /\ Len(Spelt(args)) = Len(args)
  BY <1>1, <1>2, <1>4, <1>5, SeqFacts
<1> QED
  BY <1>4, <1>6 DEF AreTexts

\* An argument is added with its letters.
LEMMA SpellingOneMore ==
  ASSUME ParseInv, NEW def \in DOMAIN cfg.args \cup {0}, NEW has_value \in BOOLEAN,
         NEW value \in Text, Emplaced(def, has_value, value),
         has_value = IF def = 0 THEN TRUE ELSE ~cfg.args[def].boolean
  PROVE  LET arg == [def |-> def, has_value |-> has_value, value |-> value]
         IN  Letters(Spellings') = Letters(Spellings) \o LettersOf(Spelled(arg))
<1> DEFINE arg == [def |-> def, has_value |-> has_value, value |-> value]
           s   == Spelt(parsed)
           t   == Spelt(parsed')
           x   == Spelled(arg)
<1>1. cfg \in Configuration /\ cfg' = cfg /\ parsed \in Seq(Argument) /\ Placed /\ Filled
  BY DEF ParseInv, Placed, Filled, Emplaced
<1>2. /\ Filled' /\ Len(parsed') = Len(parsed) + 1
      /\ \A n \in 1 .. Len(parsed) : parsed'[n] = parsed[n]
      /\ parsed'[Len(parsed) + 1] = arg
  BY <1>1, Emplacing
<1>3. parsed' \in Seq(Argument) /\ arg \in Argument /\ Len(parsed) \in Nat
  <2>1. arg \in Argument
    BY DEF Argument
  <2>2. Argument' = Argument
    BY <1>1 DEF Argument
  <2> QED
    BY <1>1, <1>2, <2>1, <2>2 DEF Filled
<1>4. Spellings = s /\ Spellings' = t
  BY <1>1 DEF Spellings, Spelt, Spelled
<1>5. /\ AreTexts(s) /\ Len(s) = Len(parsed)
      /\ \A n \in 1 .. Len(parsed) : s[n] = Spelled(parsed[n])
  BY <1>1, SpeltAre
<1>6. /\ AreTexts(t) /\ Len(t) = Len(parsed')
      /\ \A n \in 1 .. Len(parsed') : t[n] = Spelled(parsed'[n])
  BY <1>1, <1>3, SpeltAre
<1>7. IsText(x)
  BY <1>1, <1>3, SpelledIs
<1>8. \A n \in 1 .. Len(s) : t[n] = s[n]
  <2> SUFFICES ASSUME NEW n \in 1 .. Len(s) PROVE t[n] = s[n]
    OBVIOUS
  <2>1. n \in 1 .. Len(parsed) /\ n \in 1 .. Len(parsed') /\ parsed'[n] = parsed[n]
    BY <1>2, <1>3, <1>5
  <2> QED
    BY <1>5, <1>6, <2>1, Zenon
<1>9. t[Len(s) + 1] = x /\ Len(t) = Len(s) + 1
  <2>1. Len(s) + 1 \in 1 .. Len(parsed') /\ parsed'[Len(s) + 1] = arg /\ Len(t) = Len(s) + 1
    BY <1>2, <1>3, <1>5, <1>6
  <2> QED
    BY <1>6, <2>1, Zenon
<1> HIDE DEF s, t, x, arg
<1>10. t = Append(s, x)
  <2> DEFINE a == Append(s, x)
  <2>1. /\ AreTexts(a) /\ Len(a) = Len(s) + 1 /\ a[Len(s) + 1] = x
        /\ \A k \in 1 .. Len(s) : a[k] = s[k]
    BY <1>5, <1>7, MoreTexts, ZenonT(60)
  <2> HIDE DEF a
  <2>2. \A k \in 1 .. Len(s) + 1 : k \in 1 .. Len(s) \/ k = Len(s) + 1
    BY <1>3, <1>5
  <2>3. \A k \in 1 .. Len(t) : t[k] = a[k]
    BY <1>8, <1>9, <2>1, <2>2
  <2>4. t = a
    BY <1>6, <1>9, <2>1, <2>3, SameTexts
  <2> QED
    BY <2>4 DEF a
<1>11. Letters(Append(s, x)) = Letters(s) \o LettersOf(x)
  BY <1>5, <1>7, LettersAre
<1> QED
  BY <1>4, <1>10, <1>11, Zenon DEF x, arg

Upto(n) == Letters(SubSeq(cfg.argv, 1, n))

LEMMA UptoMore ==
  ASSUME cfg \in Configuration, NEW n \in 1 .. Len(cfg.argv)
  PROVE  /\ Upto(n) = Upto(n - 1) \o LettersOf(cfg.argv[n])
         /\ IsText(Upto(n - 1)) /\ IsText(LettersOf(cfg.argv[n]))
<1>1. AreTexts(cfg.argv) /\ IsText(cfg.argv[n]) /\ n - 1 \in Nat /\ (n - 1) + 1 = n /\ n <= Len(cfg.argv)
  BY TokenIs
<1>2. /\ Letters(SubSeq(cfg.argv, 1, (n - 1) + 1)) = Letters(SubSeq(cfg.argv, 1, n - 1)) \o LettersOf(cfg.argv[(n - 1) + 1])
      /\ IsText(Letters(SubSeq(cfg.argv, 1, n - 1)))
  BY <1>1, TokensOneMore
<1> QED
  BY <1>1, <1>2, LettersOfIs DEF Upto

\* What was read, in the loop over the tokens and in the one over characters.
Read == Letters(ReadTokens) \o LettersOf(ReadChars)

LEMMA ReadIs ==
  ASSUME cfg \in Configuration, i \in 1 .. Len(cfg.argv) + 1
  PROVE  /\ pc # "chars" => Read = Upto(i - 1)
         /\ pc = "chars" => Read = Upto(i - 1) \o LettersOf(SubSeq(cfg.argv[i], 1, read_ptr - 1))
         /\ IsText(Upto(i - 1))
<1>1. IsText(Upto(i - 1))
  <2>1. cfg.argv \in Seq(Text)
    BY DEF Configuration
  <2>2. SubSeq(cfg.argv, 1, i - 1) \in Seq(Text)
    BY <2>1
  <2> QED
    BY <2>2, LettersAre DEF Upto, AreTexts
<1>2. LettersOf(<< >>) = << >> /\ Upto(i - 1) \o << >> = Upto(i - 1)
  BY <1>1, LettersOfIs, Nothing, NothingFirst
<1> QED
  BY <1>1, <1>2, Zenon DEF Read, ReadTokens, ReadChars, Upto

\* The tokens up to n were read.
LEMMA ReadIsNow ==
  ASSUME cfg \in Configuration, cfg' = cfg, pc' = "tokens", NEW n \in 1 .. Len(cfg.argv), i' = n + 1
  PROVE  Read' = Upto(n)
<1>1. i' - 1 = n
  BY DEF Configuration
<1>2. ReadTokens' = SubSeq(cfg.argv, 1, n) /\ ReadChars' = << >>
  BY <1>1 DEF ReadTokens, ReadChars
<1>3. Read' = Letters(ReadTokens') \o LettersOf(ReadChars')
  BY DEF Read, Letters, LettersOf
<1>4. LettersOf(<< >>) = << >>
  BY LettersOfIs, Nothing
<1>5. IsText(Upto(n)) /\ Upto(n) = Letters(SubSeq(cfg.argv, 1, n))
  <2>1. Upto(n) = Upto(n - 1) \o LettersOf(cfg.argv[n]) /\ IsText(Upto(n - 1)) /\ IsText(LettersOf(cfg.argv[n]))
    BY UptoMore
  <2>2. IsText(Upto(n - 1) \o LettersOf(cfg.argv[n]))
    BY <2>1, JoinedText
  <2> QED
    BY <2>1, <2>2, Zenon DEF Upto
<1> QED
  BY <1>2, <1>3, <1>4, <1>5, NothingFirst, Zenon

LEMMA TakingStays ==
  ASSUME Taking, UNCHANGED <<cfg, i, parsed>>, pc \notin {"chars", "returned"}, pc' # "chars"
  PROVE  Taking'
<1>1. /\ UNCHANGED <<Spellings, ReadTokens, NoneAllBoolean>>
      /\ ReadChars = << >> /\ ReadChars' = << >>
  BY DEF Spellings, Spelled, ReadTokens, ReadChars, NoneAllBoolean, AllBoolean, Lettered, Named
<1>2. UNCHANGED <<Letters(Spellings), Letters(ReadTokens), LettersOf(ReadChars)>>
  BY <1>1 DEF Letters, LettersOf
<1> QED
  BY <1>1, <1>2 DEF Taking

LEMMA TakingFails ==
  ASSUME pc' = "returned", err' # "SUCCESS"
  PROVE  Taking'
BY DEF Taking, Accepted

LEMMA SameLines ==
  ASSUME cfg' = cfg
  PROVE  /\ NoneAllBoolean' = NoneAllBoolean
         /\ \A c : Lettered(c)' = Lettered(c)
BY DEF NoneAllBoolean, AllBoolean, Lettered, Named

\* An argument was added, and as much was read.
LEMMA TakingOneMore ==
  ASSUME ParseInv, Taking, pc \in {"tokens", "chars"}, pc' \in {"tokens", "chars"},
         NEW def \in DOMAIN cfg.args \cup {0}, NEW has_value \in BOOLEAN,
         NEW value \in Text, Emplaced(def, has_value, value),
         has_value = IF def = 0 THEN TRUE ELSE ~cfg.args[def].boolean,
         NEW arg, arg = [def |-> def, has_value |-> has_value, value |-> value],
         NoneAllBoolean =>
           /\ Read' = Read \o LettersOf(Spelled(arg))
           /\ pc' = "chars" =>
                /\ i' = i /\ Len(cfg.argv[i]) > 1 /\ cfg.argv[i][1] = Dash /\ read_ptr' >= 2
                /\ \A k \in 2 .. read_ptr' - 1 : Lettered(cfg.argv[i][k]) # 0
                                                 /\ cfg.args[Lettered(cfg.argv[i][k])].boolean
  PROVE  Taking'
<1>1. cfg' = cfg
  BY DEF Emplaced
<1>2. Letters(Spellings') = Letters(Spellings) \o LettersOf(Spelled(arg))
  BY SpellingOneMore
<1>3. SUFFICES ASSUME NoneAllBoolean
               PROVE  /\ Letters(Spellings') = Read'
                      /\ pc' = "chars" =>
                           /\ Len(cfg.argv[i']) > 1 /\ cfg.argv[i'][1] = Dash /\ read_ptr' >= 2
                           /\ \A k \in 2 .. read_ptr' - 1 : Lettered(cfg.argv[i'][k]) # 0
                                                            /\ cfg.args[Lettered(cfg.argv[i'][k])].boolean
  BY <1>1, SameLines DEF Taking, Read, Letters
<1>4. Letters(Spellings) = Read
  BY <1>3 DEF Taking, Read
<1>5. Letters(Spellings') = Read'
  BY <1>2, <1>3, <1>4, Zenon
<1> QED
  BY <1>3, <1>5, Zenon

\* A token, and a token and the next one, behind what was read before.
Cat(a, b) == a \o b

LEMMA Regrouped ==
  ASSUME NEW a, IsText(a), NEW b, IsText(b), NEW c, IsText(c)
  PROVE  /\ Cat(Cat(a, b), c) = Cat(a, Cat(b, c))
         /\ IsText(Cat(a, b))
BY Associative, JoinedText, SMT DEF Cat

LEMMA AllRegrouped ==
  \A a, b, c : IsText(a) /\ IsText(b) /\ IsText(c) =>
     Cat(Cat(a, b), c) = Cat(a, Cat(b, c)) /\ IsText(Cat(a, b))
BY Regrouped

\* The token is read to its end, the argument being spelled as what is behind
\* `before`, which was read before.
LEMMA TokenTaken ==
  ASSUME ParseInv, Taking, pc \in {"tokens", "chars"}, i <= Len(cfg.argv),
         NEW def \in DOMAIN cfg.args \cup {0}, NEW has_value \in BOOLEAN,
         NEW value \in Text, Emplaced(def, has_value, value),
         has_value = IF def = 0 THEN TRUE ELSE ~cfg.args[def].boolean,
         NEW arg, arg = [def |-> def, has_value |-> has_value, value |-> value],
         NextToken(1), NEW before, IsText(before), Read = Upto(i - 1) \o before,
         LettersOf(cfg.argv[i]) = before \o LettersOf(Spelled(arg))
  PROVE  Taking'
<1>1. /\ cfg \in Configuration /\ cfg' = cfg /\ i \in 1 .. Len(cfg.argv) /\ Len(cfg.argv) \in Nat
      /\ pc' = "tokens" /\ i' = i + 1
  BY DEF ParseInv, Placed, Emplaced, NextToken, Configuration
<1>2. arg \in Argument
  BY DEF Argument
<1> DEFINE x == LettersOf(Spelled(arg))
           u == Upto(i - 1)
<1>3. IsText(x) /\ IsText(u) /\ Upto(i) = u \o LettersOf(cfg.argv[i])
  BY <1>1, <1>2, SpelledIs, LettersOfIs, UptoMore
<1>4. Read' = Upto(i)
  BY <1>1, ReadIsNow
<1>5. u \o LettersOf(cfg.argv[i]) = Read \o x
  <2> HIDE DEF u, x
  <2>1. LettersOf(cfg.argv[i]) = before \o x /\ Read = u \o before
    BY DEF u, x
  <2>2. LettersOf(cfg.argv[i]) = Cat(before, x) /\ Read = Cat(u, before)
    BY <2>1 DEF Cat
  <2>3. Cat(u, LettersOf(cfg.argv[i])) = Cat(Read, x)
    <3>1. IsText(u) /\ IsText(before) /\ IsText(x)
      BY <1>3
    <3>2. Cat(u, Cat(before, x)) = Cat(Cat(u, before), x)
      BY <3>1, AllRegrouped
    <3> QED
      BY <2>2, <3>2, Zenon
  <2> QED
    BY <2>3 DEF Cat
<1>6. Read' = Read \o x
  BY <1>3, <1>4, <1>5, Zenon
<1> QED
  BY <1>1, <1>6, TakingOneMore

\* The same where the next token is the value and is read, too.
LEMMA TokensTaken ==
  ASSUME ParseInv, Taking, pc \in {"tokens", "chars"}, i <= Len(cfg.argv),
         NEW def \in DOMAIN cfg.args, ~cfg.args[def].boolean, ValueNext(def),
         NEW before, IsText(before), Read = Upto(i - 1) \o before,
         LettersOf(cfg.argv[i]) = before \o LettersOf(cfg.args[def].name)
  PROVE  Taking'
<1>1. CASE Fail("ARG_MISSES_VALUE", cur_arg)
  BY <1>1, TakingFails DEF Fail, Return
<1>2. CASE i # Len(cfg.argv) /\ Emplaced(def, TRUE, cfg.argv[i + 1]) /\ NextToken(2)
  <2>1. /\ cfg \in Configuration /\ cfg' = cfg /\ i \in 1 .. Len(cfg.argv) /\ Len(cfg.argv) \in Nat
        /\ i + 1 \in 1 .. Len(cfg.argv) /\ (i + 1) - 1 = i /\ pc' = "tokens" /\ i' = i + 2 /\ i' - 1 = i + 1 /\ def # 0
    BY <1>2 DEF ParseInv, Placed, Emplaced, NextToken, Configuration
  <2>2. cfg.argv[i + 1] \in Text /\ IsText(cfg.argv[i + 1])
    BY <2>1, TokenIs DEF IsText
  <2> DEFINE arg == [def |-> def, has_value |-> TRUE, value |-> cfg.argv[i + 1]]
             v   == LettersOf(cfg.argv[i + 1])
             m   == LettersOf(cfg.args[def].name)
             u   == Upto(i - 1)
  <2>3. arg \in Argument /\ arg.def = def /\ arg.value = cfg.argv[i + 1]
    BY <2>2 DEF Argument
  <2>4. IsText(cfg.args[def].name) /\ LettersOf(Spelled(arg)) = m \o v
    <3> HIDE DEF arg
    <3> QED
      BY <2>1, <2>3, SpelledIs
  <2>5. IsText(m) /\ IsText(v) /\ IsText(u) /\ IsText(LettersOf(cfg.argv[i]))
    BY <2>1, <2>2, <2>4, LettersOfIs, UptoMore
  <2>6. Upto(i + 1) = Upto(i) \o v /\ Upto(i) = u \o LettersOf(cfg.argv[i]) /\ IsText(Upto(i))
    <3>1. Upto(i + 1) = Upto((i + 1) - 1) \o v /\ Upto(i) = u \o LettersOf(cfg.argv[i])
      BY <2>1, UptoMore
    <3> QED
      BY <2>1, <2>5, <3>1, JoinedText
  <2>7. Read' = Upto(i + 1)
    <3>1. i' = (i + 1) + 1
      BY <2>1
    <3> QED
      BY <2>1, <3>1, ReadIsNow
  <2>8. Read' = Read \o (m \o v)
    <3> HIDE DEF u, v, m
    <3>1. LettersOf(cfg.argv[i]) = before \o m /\ Read = u \o before
      BY DEF u, m
    <3>3. LettersOf(cfg.argv[i]) = Cat(before, m) /\ Read = Cat(u, before)
      BY <3>1 DEF Cat
    <3>4. Cat(Cat(u, LettersOf(cfg.argv[i])), v) = Cat(Read, Cat(m, v))
      <4>2. IsText(u) /\ IsText(before) /\ IsText(m) /\ IsText(v)
        BY <2>5
      <4>3. Cat(Cat(u, before), m) = Cat(u, Cat(before, m)) /\ IsText(Cat(u, before))
        BY <4>2, AllRegrouped
      <4>4. Cat(Cat(Cat(u, before), m), v) = Cat(Cat(u, before), Cat(m, v))
        BY <4>2, <4>3, AllRegrouped
      <4>1. Cat(Cat(u, Cat(before, m)), v) = Cat(Cat(u, before), Cat(m, v))
        BY <4>3, <4>4, Zenon
      <4> QED
        BY <3>3, <4>1, Zenon
    <3>2. (u \o LettersOf(cfg.argv[i])) \o v = Read \o (m \o v)
      BY <3>4 DEF Cat
    <3> QED
      BY <2>6, <2>7, <3>2, Zenon
  <2> HIDE DEF m, v, u
  <2>9. Read' = Read \o LettersOf(Spelled(arg)) /\ pc' # "chars"
    BY <2>1, <2>4, <2>8
  <2>10. TRUE = ~cfg.args[def].boolean /\ TRUE = IF def = 0 THEN TRUE ELSE ~cfg.args[def].boolean
    BY <2>1
  <2> QED
    BY <1>2, <2>1, <2>2, <2>9, <2>10, TakingOneMore
<1> QED
  BY <1>1, <1>2 DEF ValueNext, LastToken

\* A character that is the name of an argument.
LEMMA LetterIs ==
  ASSUME cfg \in Configuration, NEW c, IsChar(c), Lettered(c) # 0
  PROVE  /\ Lettered(c) \in DOMAIN cfg.args /\ IsText(cfg.args[Lettered(c)].name)
         /\ LettersOf(cfg.args[Lettered(c)].name) = Kept(c)
<1>1. Lettered(c) \in DOMAIN cfg.args /\ cfg.args[Lettered(c)].name = <<Dash, c>>
  BY Finding DEF Lettered
<1>2. IsText(<<Dash, c>>)
  <2>1. cfg.args[Lettered(c)] \in Definition
    BY <1>1 DEF Configuration
  <2>2. cfg.args[Lettered(c)].name \in Text
    BY <2>1 DEF Definition
  <2> QED
    BY <1>1, <2>2 DEF IsText
<1>3. IsChar(Dash)
  <2> DEFINE s == <<Dash, c>>
  <2>1. s[1] = Dash /\ Len(s) = 2
    OBVIOUS
  <2> HIDE DEF s
  <2>2. IsText(s)
    BY <1>2 DEF s
  <2>3. 1 \in 1 .. Len(s)
    BY <2>1
  <2>4. IsChar(s[1])
    BY <2>2, <2>3, TextIs
  <2> QED
    BY <2>1, <2>4
<1> QED
  BY <1>1, <1>2, <1>3, LettersOfDashed

-----------------------------------------------------------------------------
(* Every step takes all of what it reads.                                  *)

LEMMA TakingInitially == Init => Taking
<1> SUFFICES ASSUME Init PROVE Taking
  OBVIOUS
<1>1. ParseInv /\ cfg \in Configuration /\ parsed = << >> /\ i = 1 /\ pc = "called" /\ Len(cfg.argv) \in Nat
  BY ParseInitially DEF Init, ParseInv, Placed, Configuration
<1>2. Letters(Spellings) = << >>
  <2>1. parsed \in Seq(Argument) /\ Len(parsed) = 0
    BY <1>1
  <2>2. Spellings = Spelt(parsed)
    BY DEF Spellings, Spelt
  <2> QED
    BY <1>1, <2>1, <2>2, SpeltAre, LettersAre
<1>3. Read = Upto(0)
  <2>1. i \in 1 .. Len(cfg.argv) + 1 /\ i - 1 = 0
    BY <1>1
  <2> QED
    BY <1>1, <2>1, ReadIs
<1>4. Upto(0) = << >>
  <2>1. cfg.argv \in Seq(Text)
    BY <1>1 DEF Configuration
  <2>2. SubSeq(cfg.argv, 1, 0) \in Seq(Text) /\ Len(SubSeq(cfg.argv, 1, 0)) = 0
    BY <2>1
  <2> QED
    BY <2>2, LettersAre DEF Upto, AreTexts
<1> QED
  BY <1>1, <1>2, <1>3, <1>4 DEF Taking, Read

LEMMA TakingLeft ==
  ASSUME NEW s, s # "SUCCESS", \/ Leave(s) \/ \E token : Fail(s, token)
  PROVE  Taking'
BY TakingFails DEF Leave, Fail, Return

LEMMA TakingBegins == ASSUME Taking, Begin PROVE Taking'
<1>1. CASE Leave("INVALID_ARGUMENT") \/ Leave("NOT_ENOUGH_MEMORY")
  BY <1>1, TakingLeft
<1>2. CASE pc = "called" /\ pc' = "tokens" /\ UNCHANGED <<cfg, cursor, parsed, err, error_token>>
  BY <1>2, TakingStays DEF cursor
<1> QED
  BY <1>1, <1>2 DEF Begin

LEMMA TakingEnds == ASSUME Taking, EndOfTokens PROVE Taking'
BY TakingStays DEF EndOfTokens, cursor

LEMMA TakingChecks == ASSUME Taking, Checks PROVE Taking'
<1>1. CASE \E token : Fail("TOO_FEW_ARGS", token) \/ Fail("REQUIRED_ARG_MISSING", token)
  BY <1>1, TakingLeft
<1>2. CASE pc = "checks" /\ Return("SUCCESS") /\ UNCHANGED <<cfg, cursor, parsed, capacity>>
  BY <1>2, TakingStays DEF cursor, Return
<1> QED
  BY <1>1, <1>2 DEF Checks

\* Dashes have no letters.
LEMMA DashesOnly ==
  ASSUME NEW s, IsText(s), Len(s) >= 1, s[1] = Dash
  PROVE  /\ IsChar(Dash)
         /\ LettersOf(SubSeq(s, 1, 1)) = << >>
         /\ Len(s) = 2 /\ s[2] = Dash => LettersOf(s) = << >>
<1>1. Len(s) \in Nat /\ 1 \in 1 .. Len(s) /\ 1 - 1 = 0 /\ IsChar(Dash) /\ s \in Seq(Characters)
  BY TextIs DEF IsText, Text, Characters
<1>2. LettersOf(SubSeq(s, 1, 0)) = << >>
  <2>1. SubSeq(s, 1, 0) \in Seq(Characters) /\ Len(SubSeq(s, 1, 0)) = 0
    BY <1>1
  <2> QED
    BY <2>1, LettersOfIs DEF IsText, Text, Characters
<1>3. LettersOf(SubSeq(s, 1, 1)) = << >>
  <2>1. LettersOf(SubSeq(s, 1, 1)) = LettersOf(SubSeq(s, 1, 1 - 1)) \o Kept(s[1])
    BY <1>1, CharsOneMore
  <2> QED
    BY <1>1, <1>2, <2>1, Nothing, NothingFirst DEF Kept
<1>4. ASSUME Len(s) = 2, s[2] = Dash PROVE LettersOf(s) = << >>
  <2>1. 2 \in 1 .. Len(s) /\ 2 - 1 = 1 /\ 2 = Len(s)
    BY <1>4
  <2>2. LettersOf(s) = LettersOf(SubSeq(s, 1, 2 - 1)) \o Kept(s[2])
    BY <2>1, CharsOneMore
  <2> QED
    BY <1>3, <1>4, <2>1, <2>2, Nothing, NothingFirst DEF Kept
<1> QED
  BY <1>1, <1>3, <1>4

LEMMA TakingDashes == ASSUME ParseInv, Taking, EndOfDashes PROVE Taking'
<1>1. /\ cfg \in Configuration /\ cfg' = cfg /\ parsed' = parsed /\ pc = "tokens" /\ pc' = "tokens"
      /\ i \in 1 .. Len(cfg.argv) /\ i \in 1 .. Len(cfg.argv) + 1 /\ i' = i + 1 /\ Len(cfg.argv[i]) = 2
      /\ cfg.argv[i][1] = Dash /\ cfg.argv[i][2] = Dash
  BY DEF EndOfDashes, IsDoubleDash, cur_arg, NextToken, ParseInv, Placed, Configuration
<1>2. Read' = Upto(i)
  BY <1>1, ReadIsNow
<1>3. Read = Upto(i - 1) /\ IsText(Upto(i - 1))
  BY <1>1, ReadIs
<1>4. LettersOf(cfg.argv[i]) = << >>
  <2>1. IsText(cfg.argv[i]) /\ Len(cfg.argv[i]) >= 1
    BY <1>1, TokenIs
  <2> QED
    BY <1>1, <2>1, DashesOnly
<1>5. Upto(i) = Upto(i - 1) \o LettersOf(cfg.argv[i])
  BY <1>1, UptoMore
<1>6. Read' = Read
  BY <1>2, <1>3, <1>4, <1>5, NothingFirst, Zenon
<1>7. Spellings' = Spellings /\ NoneAllBoolean' = NoneAllBoolean
  BY <1>1, SameLines DEF Spellings, Spelled
<1>8. Letters(Spellings') = Letters(Spellings)
  BY <1>7, Zenon
<1> QED
  BY <1>1, <1>6, <1>7, <1>8 DEF Taking, Read, Letters

\* The dash in front of the characters is read.
LEMMA TakingDown == ASSUME ParseInv, Taking, SingleDash PROVE Taking'
<1>1. /\ cfg \in Configuration /\ cfg' = cfg /\ parsed' = parsed /\ pc = "tokens" /\ pc' = "chars"
      /\ i \in 1 .. Len(cfg.argv) /\ i \in 1 .. Len(cfg.argv) + 1 /\ i' = i /\ Len(cfg.argv[i]) > 1
      /\ cfg.argv[i][1] = Dash /\ read_ptr' = 2 /\ read_ptr' - 1 = 1
  BY DEF SingleDash, IsSingleDash, cur_arg, ParseInv, Placed, Configuration
<1>2. LettersOf(SubSeq(cfg.argv[i], 1, 1)) = << >>
  <2>1. IsText(cfg.argv[i]) /\ Len(cfg.argv[i]) >= 1
    BY <1>1, TokenIs
  <2> QED
    BY <1>1, <2>1, DashesOnly
<1>3. Read = Upto(i - 1) /\ IsText(Upto(i - 1))
  BY <1>1, ReadIs
<1>4. Read' = Upto(i - 1) \o LettersOf(SubSeq(cfg.argv[i], 1, 1))
  <2>1. ReadTokens' = SubSeq(cfg.argv, 1, i - 1) /\ ReadChars' = SubSeq(cfg.argv[i], 1, 1)
    BY <1>1 DEF ReadTokens, ReadChars
  <2>2. Read' = Letters(ReadTokens') \o LettersOf(ReadChars')
    BY DEF Read, Letters, LettersOf
  <2> QED
    BY <2>1, <2>2, Zenon DEF Upto
<1>5. Read' = Read
  BY <1>2, <1>3, <1>4, NothingFirst, Zenon
<1>6. Spellings' = Spellings /\ NoneAllBoolean' = NoneAllBoolean
  BY <1>1, SameLines DEF Spellings, Spelled
<1>7. Letters(Spellings') = Letters(Spellings)
  BY <1>6, Zenon
<1>8. /\ Len(cfg'.argv[i']) > 1 /\ cfg'.argv[i'][1] = Dash /\ read_ptr' >= 2
      /\ \A k \in 2 .. read_ptr' - 1 : FALSE
  BY <1>1
<1>9. NoneAllBoolean => Letters(Spellings') = Letters(ReadTokens') \o LettersOf(ReadChars')
  BY <1>1, <1>5, <1>7 DEF Taking, Read, Letters, LettersOf
<1>10. NoneAllBoolean => Letters(Spellings)' = (Letters(ReadTokens) \o LettersOf(ReadChars))'
  BY <1>9 DEF Letters, LettersOf
<1> QED
  BY <1>6, <1>8, <1>10, Zenon DEF Taking

\* A token that is an argument in the whole: nothing of it was read before.
LEMMA TokenWhole ==
  ASSUME ParseInv, pc = "tokens", i <= Len(cfg.argv)
  PROVE  /\ cfg \in Configuration /\ i \in 1 .. Len(cfg.argv)
         /\ IsText(cfg.argv[i]) /\ cfg.argv[i] \in Text
         /\ IsText(<< >>) /\ Read = Upto(i - 1) \o << >>
         /\ LettersOf(cfg.argv[i]) = << >> \o LettersOf(cfg.argv[i])
<1>1. cfg \in Configuration /\ i \in 1 .. Len(cfg.argv) /\ i \in 1 .. Len(cfg.argv) + 1
  BY DEF ParseInv, Placed, Configuration
<1>2. IsText(cfg.argv[i])
  BY <1>1, TokenIs
<1>3. Read = Upto(i - 1) /\ IsText(Upto(i - 1))
  BY <1>1, ReadIs
<1>4. IsText(LettersOf(cfg.argv[i]))
  BY <1>2, LettersOfIs
<1> QED
  BY <1>1, <1>2, <1>3, <1>4, Nothing, NothingFirst, Zenon DEF IsText

LEMMA TakingNames == ASSUME ParseInv, Taking, DoubleDash PROVE Taking'
<1> DEFINE def == Named(cur_arg)
<1>1. pc = "tokens" /\ pc \in {"tokens", "chars"} /\ i <= Len(cfg.argv) /\ cur_arg = cfg.argv[i]
  BY DEF DoubleDash, cur_arg
<1>2. /\ cfg \in Configuration /\ i \in 1 .. Len(cfg.argv)
      /\ IsText(<< >>) /\ Read = Upto(i - 1) \o << >>
      /\ IsText(cfg.argv[i]) /\ LettersOf(cfg.argv[i]) = << >> \o LettersOf(cfg.argv[i])
  BY <1>1, TokenWhole
<1>3. def # 0 => def \in DOMAIN cfg.args /\ cfg.args[def].name = cfg.argv[i]
  BY <1>1, <1>2, Finding
<1> HIDE DEF def
<1>4. CASE OutOfMemory
  BY <1>4, TakingLeft DEF OutOfMemory
<1>5. CASE Fail("ARG_NOT_UNDERSTOOD", cur_arg)
  BY <1>5, TakingLeft
<1>6. CASE def # 0 /\ ~cfg.args[def].boolean /\ ValueNext(def)
  <2>1. LettersOf(cfg.argv[i]) = << >> \o LettersOf(cfg.args[def].name) /\ def \in DOMAIN cfg.args
    BY <1>2, <1>3, <1>6
  <2> QED
    BY <1>1, <1>2, <1>6, <2>1, TokensTaken
<1>7. CASE def # 0 /\ cfg.args[def].boolean /\ Emplaced(def, FALSE, NoToken) /\ NextToken(1)
  <2> DEFINE arg == [def |-> def, has_value |-> FALSE, value |-> NoToken]
  <2>1. def \in DOMAIN cfg.args \cup {0} /\ NoToken \in Text /\ NoToken = << >>
    BY <1>3, <1>7, Nothing DEF NoToken, IsText
  <2>2. arg \in Argument /\ arg.def = def /\ arg.value = << >>
    BY <2>1 DEF Argument
  <2>3. arg = [def |-> def, has_value |-> FALSE, value |-> NoToken]
    OBVIOUS
  <2> HIDE DEF arg
  <2>4. LettersOf(Spelled(arg)) = LettersOf(cfg.args[def].name) \o LettersOf(<< >>)
    BY <1>2, <1>7, <2>2, SpelledIs
  <2>5. LettersOf(Spelled(arg)) = LettersOf(cfg.argv[i])
    <3>1. LettersOf(<< >>) = << >> /\ IsText(LettersOf(cfg.argv[i]))
      BY <1>2, LettersOfIs, Nothing
    <3> QED
      BY <1>3, <1>7, <2>4, <3>1, NothingFirst
  <2>6. FALSE = (IF def = 0 THEN TRUE ELSE ~cfg.args[def].boolean)
    BY <1>7
  <2>7. LettersOf(cfg.argv[i]) = << >> \o LettersOf(Spelled(arg))
    BY <1>2, <2>5
  <2> QED
    BY <1>1, <1>2, <1>7, <2>1, <2>3, <2>6, <2>7, TokenTaken
<1> QED
  BY <1>4, <1>5, <1>6, <1>7 DEF DoubleDash, def

\* A token without a name.  One whose characters were all taken is a token of
\* boolean arguments.
LEMMA TakingUnnamed == ASSUME ParseInv, Taking, Unnamed PROVE Taking'
<1>1. CASE OutOfMemory \/ Fail("TOO_MANY_ARGS", cur_arg)
  BY <1>1, TakingLeft DEF OutOfMemory
<1>2. CASE pc = "tokens" /\ i <= Len(cfg.argv) /\ Emplaced(0, TRUE, cur_arg) /\ NextToken(1)
  <2>1. /\ cfg \in Configuration /\ i \in 1 .. Len(cfg.argv)
        /\ IsText(cfg.argv[i]) /\ cfg.argv[i] \in Text
        /\ IsText(<< >>) /\ Read = Upto(i - 1) \o << >>
        /\ LettersOf(cfg.argv[i]) = << >> \o LettersOf(cfg.argv[i])
    BY <1>2, TokenWhole
  <2> DEFINE arg == [def |-> 0, has_value |-> TRUE, value |-> cfg.argv[i]]
  <2>2. arg \in Argument /\ arg.def = 0 /\ arg.value = cfg.argv[i]
    BY <2>1 DEF Argument
  <2>3. arg = [def |-> 0, has_value |-> TRUE, value |-> cfg.argv[i]]
    OBVIOUS
  <2> HIDE DEF arg
  <2>4. LettersOf(cfg.argv[i]) = << >> \o LettersOf(Spelled(arg))
    BY <2>1, <2>2, SpelledIs
  <2>5. /\ pc \in {"tokens", "chars"} /\ 0 \in DOMAIN cfg.args \cup {0} /\ TRUE \in BOOLEAN
        /\ TRUE = (IF 0 = 0 THEN TRUE ELSE ~cfg.args[0].boolean) /\ Emplaced(0, TRUE, cfg.argv[i])
    BY <1>2 DEF cur_arg
  <2> QED
    BY <1>2, <2>1, <2>3, <2>4, <2>5, TokenTaken
<1>3. CASE pc = "chars" /\ read_ptr > Len(cur_arg) /\ Emplaced(0, TRUE, cur_arg)
  <2>1. /\ cfg' = cfg /\ i \in DOMAIN cfg.argv /\ cfg \in Configuration
        /\ read_ptr \in 1 .. Len(cfg.argv[i]) + 1 /\ read_ptr > Len(cfg.argv[i])
    BY <1>3 DEF Emplaced, cur_arg, ParseInv, Placed, Configuration
  <2>2. Len(cfg.argv[i]) \in Nat
    BY <2>1, TokenIs DEF Configuration
  <2>3. 2 .. read_ptr - 1 = 2 .. Len(cfg.argv[i])
    BY <2>1, <2>2
  <2>4. ASSUME NoneAllBoolean PROVE AllBoolean(cfg.argv[i])
    BY <1>3, <2>3, <2>4 DEF Taking, AllBoolean
  <2>5. ~NoneAllBoolean'
    BY <2>1, <2>4, SameLines DEF NoneAllBoolean
  <2> QED
    BY <2>5 DEF Taking
<1> QED
  BY <1>1, <1>2, <1>3 DEF Unnamed

LEMMA NothingBehind ==
  ASSUME NEW s, IsText(s), NEW k \in 1 .. Len(s), SubSeq(s, k + 1, Len(s)) = << >>
  PROVE  k = Len(s)
<1>1. s \in Seq(Characters) /\ Len(s) \in Nat
  BY TextIs DEF IsText, Text, Characters
<1>2. k + 1 <= Len(s) => Len(SubSeq(s, k + 1, Len(s))) = Len(s) - (k + 1) + 1
  BY <1>1, SubSeqProperties
<1>3. Len(SubSeq(s, k + 1, Len(s))) = 0
  BY EmptySeq, Zenon
<1> QED
  BY <1>1, <1>2, <1>3

\* A character is taken as the name of a boolean argument, or with the value
\* that is behind it or in the next token.
LEMMA TakingChar == ASSUME ParseInv, Taking, Char PROVE Taking'
<1> DEFINE token  == cfg.argv[i]
           c      == token[read_ptr]
           def    == Lettered(c)
           rest   == SubSeq(token, read_ptr + 1, Len(token))
           before == LettersOf(SubSeq(token, 1, read_ptr - 1))
<1>1. /\ cfg \in Configuration /\ pc = "chars" /\ pc \in {"tokens", "chars"} /\ i <= Len(cfg.argv)
      /\ i \in 1 .. Len(cfg.argv) /\ i \in 1 .. Len(cfg.argv) + 1 /\ read_ptr \in 1 .. Len(token)
  <2>1. cfg \in Configuration /\ i \in 1 .. Len(cfg.argv) + 1 /\ pc = "chars" /\ i <= Len(cfg.argv)
        /\ read_ptr \in 1 .. Len(token) + 1 /\ read_ptr <= Len(token)
    BY DEF Char, cur_arg, ParseInv, Placed
  <2>2. i \in 1 .. Len(cfg.argv)
    BY <2>1 DEF Configuration
  <2>3. Len(token) \in Nat
    BY <2>1, <2>2, TokenIs
  <2> QED
    BY <2>1, <2>2, <2>3
<1>2. IsText(token)
  BY <1>1, TokenIs
<1>3. /\ LettersOf(SubSeq(token, 1, read_ptr)) = before \o Kept(c)
      /\ LettersOf(token) = LettersOf(SubSeq(token, 1, read_ptr)) \o LettersOf(rest)
      /\ IsText(before) /\ IsText(rest) /\ IsChar(c)
      /\ read_ptr = Len(token) => LettersOf(token) = before \o Kept(c)
  <2> HIDE DEF token
  <2> QED
    BY <1>1, <1>2, CharsOneMore
<1>4. Read = Upto(i - 1) \o before /\ IsText(Upto(i - 1))
  BY <1>1, ReadIs
<1>5. def # 0 => /\ def \in DOMAIN cfg.args /\ IsText(cfg.args[def].name)
                 /\ LettersOf(cfg.args[def].name) = Kept(c)
  BY <1>1, <1>3, LetterIs
<1>6. rest = << >> => read_ptr = Len(token)
  <2> HIDE DEF token
  <2> QED
    BY <1>1, <1>2, NothingBehind
<1>7. IsText(Kept(c)) /\ Kept(c) \o << >> = Kept(c)
  BY <1>3, KeptType, NothingFirst
<1> HIDE DEF def, rest, before, c
<1>8. CASE OutOfMemory
  BY <1>8, TakingLeft DEF OutOfMemory
<1>9. CASE Fail("ARG_NOT_UNDERSTOOD", cur_arg)
  BY <1>9, TakingLeft
<1>10. CASE rest = << >> /\ def # 0 /\ ~cfg.args[def].boolean /\ ValueNext(def)
  <2>1. LettersOf(cfg.argv[i]) = before \o LettersOf(cfg.args[def].name) /\ def \in DOMAIN cfg.args
    BY <1>3, <1>5, <1>6, <1>10, Zenon
  <2> QED
    BY <1>1, <1>3, <1>4, <1>10, <2>1, TokensTaken
<1>11. CASE def # 0 /\ ~cfg.args[def].boolean /\ Emplaced(def, TRUE, rest) /\ NextToken(1)
  <2> DEFINE arg == [def |-> def, has_value |-> TRUE, value |-> rest]
  <2>1. def \in DOMAIN cfg.args \cup {0} /\ rest \in Text
    BY <1>3, <1>5, <1>11 DEF IsText
  <2>2. arg \in Argument /\ arg.def = def /\ arg.value = rest
    BY <2>1 DEF Argument
  <2>3. arg = [def |-> def, has_value |-> TRUE, value |-> rest]
    OBVIOUS
  <2> HIDE DEF arg
  <2>4. LettersOf(Spelled(arg)) = Kept(c) \o LettersOf(rest)
    <3>1. LettersOf(Spelled(arg)) = LettersOf(cfg.args[def].name) \o LettersOf(rest)
      BY <1>1, <1>11, <2>2, SpelledIs
    <3> QED
      BY <1>5, <1>11, <3>1, Zenon
  <2>5. LettersOf(cfg.argv[i]) = before \o LettersOf(Spelled(arg))
    <3> DEFINE k == Kept(c)
               r == LettersOf(rest)
    <3>1. LettersOf(cfg.argv[i]) = (before \o k) \o r
      BY <1>3, Zenon
    <3>2. IsText(before) /\ IsText(k) /\ IsText(r)
      BY <1>3, <1>7, LettersOfIs
    <3> HIDE DEF k, r
    <3>3. Cat(Cat(before, k), r) = Cat(before, Cat(k, r))
      BY <3>2, AllRegrouped
    <3> QED
      BY <2>4, <3>1, <3>3, Zenon DEF Cat, k, r
  <2>6. TRUE = (IF def = 0 THEN TRUE ELSE ~cfg.args[def].boolean)
    BY <1>11
  <2> QED
    BY <1>1, <1>3, <1>4, <1>11, <2>1, <2>3, <2>5, <2>6, TokenTaken
<1>12. CASE /\ def # 0 /\ cfg.args[def].boolean /\ Emplaced(def, FALSE, NoToken)
            /\ read_ptr' = read_ptr + 1 /\ UNCHANGED <<pc, i>>
  <2> DEFINE arg == [def |-> def, has_value |-> FALSE, value |-> NoToken]
  <2>1. def \in DOMAIN cfg.args \cup {0} /\ NoToken \in Text /\ NoToken = << >> /\ cfg' = cfg
    BY <1>5, <1>12, Nothing DEF NoToken, IsText, Emplaced
  <2>2. arg \in Argument /\ arg.def = def /\ arg.value = << >>
    BY <2>1 DEF Argument
  <2>3. arg = [def |-> def, has_value |-> FALSE, value |-> NoToken]
    OBVIOUS
  <2> HIDE DEF arg
  <2>4. LettersOf(Spelled(arg)) = Kept(c)
    <3>1. LettersOf(Spelled(arg)) = LettersOf(cfg.args[def].name) \o LettersOf(<< >>)
      BY <1>1, <1>12, <2>2, SpelledIs
    <3>2. LettersOf(<< >>) = << >>
      BY LettersOfIs, Nothing
    <3> QED
      BY <1>5, <1>7, <1>12, <3>1, <3>2, Zenon
  <2>5. Read' = Upto(i - 1) \o LettersOf(SubSeq(token, 1, read_ptr))
    <3>1. (read_ptr + 1) - 1 = read_ptr
      BY <1>1
    <3>2. ReadTokens' = SubSeq(cfg.argv, 1, i - 1) /\ ReadChars' = SubSeq(token, 1, read_ptr)
      BY <1>1, <1>12, <2>1, <3>1 DEF ReadTokens, ReadChars
    <3>3. Read' = Letters(ReadTokens') \o LettersOf(ReadChars')
      BY DEF Read, Letters, LettersOf
    <3> QED
      BY <3>2, <3>3, Zenon DEF Upto
  <2>6. Read' = Read \o LettersOf(Spelled(arg))
    <3> DEFINE k == Kept(c)
               u == Upto(i - 1)
    <3>1. Read' = u \o (before \o k) /\ Read = u \o before
      BY <1>3, <1>4, <2>5, Zenon
    <3>2. IsText(u) /\ IsText(before) /\ IsText(k)
      BY <1>3, <1>4, <1>7
    <3>3. LettersOf(Spelled(arg)) = k
      BY <2>4
    <3> HIDE DEF k, u
    <3>4. Cat(Cat(u, before), k) = Cat(u, Cat(before, k))
      BY <3>2, AllRegrouped
    <3> QED
      BY <3>1, <3>3, <3>4, Zenon DEF Cat
  <2>7. FALSE = (IF def = 0 THEN TRUE ELSE ~cfg.args[def].boolean)
    BY <1>12
  <2>8. ASSUME NoneAllBoolean
        PROVE  /\ i' = i /\ Len(cfg.argv[i]) > 1 /\ cfg.argv[i][1] = Dash /\ read_ptr' >= 2
               /\ \A k \in 2 .. read_ptr' - 1 : Lettered(cfg.argv[i][k]) # 0
                                                /\ cfg.args[Lettered(cfg.argv[i][k])].boolean
    <3>1. /\ Len(cfg.argv[i]) > 1 /\ cfg.argv[i][1] = Dash /\ read_ptr >= 2
          /\ \A k \in 2 .. read_ptr - 1 : Lettered(cfg.argv[i][k]) # 0
                                          /\ cfg.args[Lettered(cfg.argv[i][k])].boolean
      BY <1>1, <2>8 DEF Taking
    <3>2. Lettered(cfg.argv[i][read_ptr]) # 0 /\ cfg.args[Lettered(cfg.argv[i][read_ptr])].boolean
      BY <1>12 DEF def, c
    <3>3. read_ptr' >= 2 /\ \A k \in 2 .. read_ptr' - 1 : k \in 2 .. read_ptr - 1 \/ k = read_ptr
      BY <1>1, <1>12, <3>1
    <3>4. \A k \in 2 .. read_ptr' - 1 : Lettered(cfg.argv[i][k]) # 0
                                        /\ cfg.args[Lettered(cfg.argv[i][k])].boolean
      BY <3>1, <3>2, <3>3, Zenon
    <3> QED
      BY <1>12, <3>1, <3>3, <3>4
  <2>9. pc' \in {"tokens", "chars"}
    BY <1>1, <1>12
  <2> QED
    BY <1>1, <1>12, <2>1, <2>3, <2>6, <2>7, <2>8, <2>9, TakingOneMore
<1> QED
  BY <1>8, <1>9, <1>10, <1>11, <1>12 DEF Char, cur_arg, def, rest, c

LEMMA TakingStep == ParseInv /\ Taking /\ [Next]_vars => Taking'
<1> SUFFICES ASSUME ParseInv, Taking, [Next]_vars PROVE Taking'
  OBVIOUS
<1>1. CASE UNCHANGED vars
  <2>1. /\ UNCHANGED <<cfg, pc, i, read_ptr, parsed, err>>
        /\ UNCHANGED <<Spellings, ReadTokens, ReadChars, NoneAllBoolean>>
    BY <1>1, SameLines DEF vars, Spellings, Spelled, ReadTokens, ReadChars
  <2>2. UNCHANGED <<Letters(Spellings), Letters(ReadTokens), LettersOf(ReadChars)>>
    BY <2>1 DEF Letters, LettersOf
  <2>3. \A c : UNCHANGED Lettered(c)
    BY <2>1, SameLines
  <2> QED
    BY <2>1, <2>2, <2>3 DEF Taking, Accepted
<1> QED
  BY <1>1, TakingBegins, TakingEnds, TakingDashes, TakingNames, TakingDown, TakingChar, TakingUnnamed, TakingChecks
  DEF Next

LEMMA TakingHolds == Spec => []Taking
  BY TakingInitially, TakingStep, ParseInvHolds, PTL DEF Spec

-----------------------------------------------------------------------------
(* The theorems.                                                           *)

\* The parser reads no token and no character that is not there, names no
\* definition that was not given and never fills the vector beyond its room.
THEOREM ArgParseTypeCorrect == Spec => []TypeOK
<1>1. ParseInv => TypeOK
  <2> SUFFICES ASSUME ParseInv PROVE TypeOK
    OBVIOUS
  <2>1. \A n \in DOMAIN parsed : parsed[n].def \in DOMAIN cfg.args \cup {0}
    <3>1. parsed \in Seq(Argument)
      BY DEF ParseInv, Filled
    <3>2. \A n \in DOMAIN parsed : parsed[n] \in Argument
      BY <3>1
    <3> QED
      BY <3>2 DEF Argument
  <2>2. pc = "chars" => read_ptr <= Len(cur_arg) + 1
    BY DEF ParseInv, Placed, cur_arg
  <2> QED
    BY <2>1, <2>2 DEF ParseInv, Placed, Filled, TypeOK
<1> QED
  BY <1>1, ParseInvHolds, PTL

\* What is accepted is within the limits, with the required arguments and with
\* values where the definitions ask for them; an error in the arguments leaves
\* no vector, whenever it is found.
THEOREM ArgParseResultValid == Spec => []ResultValid
<1>1. ParseInv => ResultValid
  <2> SUFFICES ASSUME ParseInv PROVE ResultValid
    OBVIOUS
  <2>1. cfg \in Configuration /\ num_unnamed_args \in Nat
    BY DEF ParseInv, Placed
  <2>2. ASSUME Accepted
        PROVE  Cardinality(UnnamedOnes) \in cfg.min_unnamed_args .. cfg.max_unnamed_args
    BY <2>1, <2>2 DEF ParseInv, Counting, Configuration
  <2>3. ASSUME Accepted, NEW k \in DOMAIN cfg.args, cfg.args[k].required
        PROVE  \E n \in DOMAIN parsed \ UnnamedOnes : parsed[n].def = k
    <3>1. PICK n \in DOMAIN parsed : parsed[n].def = k
      BY <2>3 DEF ParseInv, Counting, Missing
    <3>2. k # 0
      BY <2>1 DEF Configuration
    <3> QED
      BY <3>1, <3>2 DEF UnnamedOnes
  <2>4. \A n \in DOMAIN parsed \ UnnamedOnes : parsed[n].has_value = ~cfg.args[parsed[n].def].boolean
    BY DEF ParseInv, Filled, UnnamedOnes
  <2>5. pc = "returned" /\ err \notin {"SUCCESS", "NOT_ENOUGH_MEMORY"} => capacity = 0 /\ parsed = << >>
    BY DEF ParseInv, Counting
  <2> QED
    BY <2>2, <2>3, <2>4, <2>5 DEF ResultValid, UnnamedOnes
<1> QED
  BY <1>1, ParseInvHolds, PTL

\* Behind a "--" every token is an argument without a name, in order.
THEOREM DoubleDashEnds == Spec => []DashesEnd
<1>1. ParseInv => DashesEnd
  <2> SUFFICES ASSUME ParseInv, Accepted, NEW n \in DOMAIN cfg.argv, Ends(n)
               PROVE  /\ Len(parsed) >= Len(cfg.argv) - n
                      /\ \A m \in n + 1 .. Len(cfg.argv) :
                           parsed[Len(parsed) - Len(cfg.argv) + m] = Plain(cfg.argv[m])
    BY DEF DashesEnd, Ends, Plain
  <2>1. cfg \in Configuration /\ i = Len(cfg.argv) + 1 /\ Len(cfg.argv) \in Nat /\ n \in 1 .. Len(cfg.argv)
    BY DEF ParseInv, Placed, Configuration
  <2>2. i > n /\ i - 1 = Len(cfg.argv)
    BY <2>1
  <2>3. LastAre(parsed, cfg.argv, n, i)
    BY <2>2 DEF ParseInv, Behind
  <2> QED
    BY <2>2, <2>3 DEF LastAre
<1> QED
  BY <1>1, ParseInvHolds, PTL

\* No letter of an accepted command line is lost or taken twice.
THEOREM EveryLetterAccounted == Spec => []LettersAccounted
<1>1. ParseInv /\ Taking => LettersAccounted
  <2> SUFFICES ASSUME ParseInv, Taking, NoneAllBoolean, Accepted
               PROVE  Letters(Spellings) = Letters(cfg.argv)
    BY DEF LettersAccounted, AllAccounted, NoneAllBoolean, Spellings
  <2>1. /\ cfg \in Configuration /\ i = Len(cfg.argv) + 1 /\ i \in 1 .. Len(cfg.argv) + 1
        /\ i - 1 = Len(cfg.argv) /\ pc # "chars"
    BY DEF ParseInv, Placed, Accepted, Configuration
  <2>2. Upto(i - 1) = Letters(cfg.argv)
    <3>1. cfg.argv \in Seq(Text)
      BY <2>1 DEF Configuration
    <3>2. SubSeq(cfg.argv, 1, Len(cfg.argv)) = cfg.argv
      BY <3>1, SubSeqFull
    <3> QED
      BY <2>1, <3>2, Zenon DEF Upto
  <2>3. Read = Upto(i - 1)
    BY <2>1, ReadIs
  <2> QED
    BY <2>2, <2>3 DEF Taking, Read
<1> QED
  BY <1>1, ParseInvHolds, TakingHolds, PTL
=============================================================================
