---------------------------- MODULE ZyanArgParse ----------------------------
(***************************************************************************)
(* ZyanArgParseEx (src/src/ArgParse.c): the tokens of a command line are   *)
(* matched with the definitions of arguments, one after the other, and the *)
(* arguments they make are appended to a vector.                           *)
(*                                                                         *)
(* A string is a sequence of characters.  A round of the loop over the     *)
(* tokens is an action, and so is a round of the one over the characters   *)
(* of a token with a single dash.  The vector is known by its elements and *)
(* its capacity, for which alone the allocator is asked.                   *)
(***************************************************************************)
EXTENDS Integers, Sequences, FiniteSets

CONSTANTS CommandLines,       \* argv without the name of the program
          Definitions,        \* args without the NULL that ends them
          Limits,             \* min_unnamed_args and max_unnamed_args, in pairs
          AllocatorMayFail

ASSUME ArgParseAssumption ==
  /\ AllocatorMayFail \in BOOLEAN
  /\ CommandLines \subseteq Seq(Seq(STRING))
  /\ Limits \subseteq Nat \X Nat
  /\ \A args \in Definitions :
       args \in Seq([name : Seq(STRING), boolean : BOOLEAN, required : BOOLEAN])

VARIABLES cfg,
          pc,                 \* "called", "tokens", "chars", "checks", "returned"
          i,                  \* the token that is looked at
          read_ptr,           \* its character
          accept_dash_args,
          num_unnamed_args,
          parsed,             \* the elements of the vector
          capacity,           \* 0: the vector is not initialised
          err, error_token

SeqX == INSTANCE SequencesExt

cursor == <<i, read_ptr, accept_dash_args, num_unnamed_args>>
vars == <<cfg, pc, i, read_ptr, accept_dash_args, num_unnamed_args, parsed,
          capacity, err, error_token>>

NoToken == << >>
Dash == "-"

cur_arg == cfg.argv[i]
LastToken == i = Len(cfg.argv)

\* The index of a definition, 0 being ZYAN_NULL
FirstOf(ks) == IF ks = {} THEN 0 ELSE CHOOSE k \in ks : \A j \in ks : k <= j
Named(name) == FirstOf({k \in DOMAIN cfg.args : cfg.args[k].name = name})
Lettered(c) == Named(<<Dash, c>>)

\* Names have one dash and one character, or two dashes
WellNamed(name) == /\ Len(name) >= 2 /\ name[1] = Dash
                   /\ name[2] = Dash \/ Len(name) = 2

-----------------------------------------------------------------------------
Init == /\ \E argv \in CommandLines, args \in Definitions, l \in Limits :
             cfg = [argv |-> argv, args |-> args,
                    min_unnamed_args |-> l[1], max_unnamed_args |-> l[2]]
        /\ pc = "called"
        /\ i = 1 /\ read_ptr = 0 /\ accept_dash_args = TRUE
        /\ num_unnamed_args = 0
        /\ parsed = << >> /\ capacity = 0
        /\ err = "none" /\ error_token = NoToken

\* ZYAN_CHECK: the vector stays as it is
Return(s) == pc' = "returned" /\ err' = s
Leave(s) == Return(s) /\ UNCHANGED <<cfg, cursor, parsed, capacity, error_token>>

\* Mutant: the vector is left to the caller
FailDirty(s, token) == /\ Return(s)
                       /\ error_token' = token
                       /\ UNCHANGED <<cfg, cursor, parsed, capacity>>

\* goto failure: the vector is destroyed
Fail(s, token) == /\ Return(s)
                  /\ error_token' = token
                  /\ parsed' = << >> /\ capacity' = 0
                  /\ UNCHANGED <<cfg, cursor>>

\* ZyanVectorEmplace of an argument that is then filled in, or its failure;
\* with `Then` the function goes on
Room == IF Len(parsed) < capacity THEN capacity ELSE (Len(parsed) + 1) * 2
Emplaced(def, has_value, value) ==
  /\ parsed' = Append(parsed, [def |-> def, has_value |-> has_value,
                               value |-> value])
  /\ capacity' = Room
  /\ UNCHANGED <<cfg, err, error_token>>

OutOfMemory == /\ AllocatorMayFail /\ Len(parsed) = capacity
               /\ Leave("NOT_ENOUGH_MEMORY")

\* The checks of the configuration, and ZyanVectorInitEx
Begin ==
  /\ pc = "called"
  /\ IF \/ cfg.min_unnamed_args > cfg.max_unnamed_args
        \/ \E k \in DOMAIN cfg.args : ~WellNamed(cfg.args[k].name)
       THEN Leave("INVALID_ARGUMENT")
     ELSE \/ /\ pc' = "tokens" /\ capacity' = Len(cfg.argv) + 1
             /\ UNCHANGED <<cfg, cursor, parsed, err, error_token>>
          \/ AllocatorMayFail /\ Leave("NOT_ENOUGH_MEMORY")

\* The next token is looked at
NextToken(n) == pc' = "tokens" /\ i' = i + n /\ read_ptr' = 0

\* Mutant: the loop over the tokens goes one round too far
EndOfTokensLate ==
  /\ pc = "tokens" /\ i > Len(cfg.argv) + 1
  /\ pc' = "checks"
  /\ UNCHANGED <<cfg, cursor, parsed, capacity, err, error_token>>

EndOfTokens ==
  /\ pc = "tokens" /\ i > Len(cfg.argv)
  /\ pc' = "checks"
  /\ UNCHANGED <<cfg, cursor, parsed, capacity, err, error_token>>

IsDoubleDash == accept_dash_args /\ Len(cur_arg) >= 2
                  /\ cur_arg[1] = Dash /\ cur_arg[2] = Dash
IsSingleDash == accept_dash_args /\ ~IsDoubleDash /\ Len(cur_arg) > 1
                  /\ cur_arg[1] = Dash

\* Mutant: the end of the arguments with dashes does not hold
DashesIgnored ==
  /\ pc = "tokens" /\ i <= Len(cfg.argv) /\ IsDoubleDash /\ Len(cur_arg) = 2
  /\ NextToken(2)
  /\ UNCHANGED <<cfg, accept_dash_args, num_unnamed_args, parsed, capacity,
                 err, error_token>>

\* "--": no more arguments with dashes
EndOfDashes ==
  /\ pc = "tokens" /\ i <= Len(cfg.argv) /\ IsDoubleDash /\ Len(cur_arg) = 2
  /\ accept_dash_args' = FALSE
  /\ NextToken(1)
  /\ UNCHANGED <<cfg, num_unnamed_args, parsed, capacity, err, error_token>>

\* Mutant: the token with the value is read again
ValueKept(def) ==
  IF LastToken THEN Fail("ARG_MISSES_VALUE", cur_arg)
  ELSE /\ Emplaced(def, TRUE, cfg.argv[i + 1])
       /\ NextToken(1)
       /\ UNCHANGED <<accept_dash_args, num_unnamed_args>>

\* Mutant: the last token is not known as such
ValueUnchecked(def) ==
  /\ Emplaced(def, TRUE, IF LastToken THEN NoToken ELSE cfg.argv[i + 1])
  /\ NextToken(2)
  /\ UNCHANGED <<accept_dash_args, num_unnamed_args>>

\* The argument's value is the next token
ValueNext(def) ==
  IF LastToken THEN Fail("ARG_MISSES_VALUE", cur_arg)
  ELSE /\ Emplaced(def, TRUE, cfg.argv[i + 1])
       /\ NextToken(2)
       /\ UNCHANGED <<accept_dash_args, num_unnamed_args>>

DoubleDash ==
  LET def == Named(cur_arg) IN
  /\ pc = "tokens" /\ i <= Len(cfg.argv) /\ IsDoubleDash /\ Len(cur_arg) > 2
  /\ \/ OutOfMemory
     \/ IF def = 0 THEN Fail("ARG_NOT_UNDERSTOOD", cur_arg)
        ELSE IF ~cfg.args[def].boolean THEN ValueNext(def)
        ELSE /\ Emplaced(def, FALSE, NoToken)
             /\ NextToken(1)
             /\ UNCHANGED <<accept_dash_args, num_unnamed_args>>

SingleDash ==
  /\ pc = "tokens" /\ i <= Len(cfg.argv) /\ IsSingleDash
  /\ pc' = "chars" /\ read_ptr' = 2
  /\ UNCHANGED <<cfg, i, accept_dash_args, num_unnamed_args, parsed, capacity,
                 err, error_token>>

\* A character is the name of an argument; what is behind one that is not
\* boolean is its value
Char ==
  LET def == Lettered(cur_arg[read_ptr])
      rest == SubSeq(cur_arg, read_ptr + 1, Len(cur_arg))
  IN
  /\ pc = "chars" /\ read_ptr <= Len(cur_arg)
  /\ \/ OutOfMemory
     \/ IF def = 0 THEN Fail("ARG_NOT_UNDERSTOOD", cur_arg)
        ELSE IF cfg.args[def].boolean
          THEN /\ Emplaced(def, FALSE, NoToken)
               /\ read_ptr' = read_ptr + 1
               /\ UNCHANGED <<pc, i, accept_dash_args, num_unnamed_args>>
        ELSE IF rest = << >> THEN ValueNext(def)
        ELSE /\ Emplaced(def, TRUE, rest)
             /\ NextToken(1)
             /\ UNCHANGED <<accept_dash_args, num_unnamed_args>>

\* A token without dashes, and one with a single dash whose characters were
\* all boolean arguments
Unnamed ==
  /\ \/ pc = "tokens" /\ i <= Len(cfg.argv) /\ ~IsDoubleDash /\ ~IsSingleDash
     \/ pc = "chars" /\ read_ptr > Len(cur_arg)
  /\ IF num_unnamed_args + 1 > cfg.max_unnamed_args
       THEN Fail("TOO_MANY_ARGS", cur_arg)
     ELSE \/ /\ num_unnamed_args' = num_unnamed_args + 1
             /\ Emplaced(0, TRUE, cur_arg)
             /\ NextToken(1)
             /\ UNCHANGED accept_dash_args
          \/ OutOfMemory

\* Mutant: an argument counts as found when any was
MissingAny ==
  {k \in DOMAIN cfg.args : cfg.args[k].required
     /\ \A n \in DOMAIN parsed : parsed[n].def = 0}

Missing ==
  {k \in DOMAIN cfg.args : cfg.args[k].required
     /\ \A n \in DOMAIN parsed : parsed[n].def # k}

Checks ==
  /\ pc = "checks"
  /\ IF num_unnamed_args < cfg.min_unnamed_args
       THEN Fail("TOO_FEW_ARGS", error_token)
     ELSE IF Missing # {}
       THEN Fail("REQUIRED_ARG_MISSING", cfg.args[FirstOf(Missing)].name)
     ELSE /\ Return("SUCCESS")
          /\ error_token' = NoToken
          /\ UNCHANGED <<cfg, cursor, parsed, capacity>>

Next == \/ Begin \/ EndOfTokens \/ EndOfDashes \/ DoubleDash \/ SingleDash
        \/ Char \/ Unnamed \/ Checks

\* The function runs on until it returns, as the thread that called it does.
Spec == Init /\ [][Next]_vars /\ WF_vars(Next)

-----------------------------------------------------------------------------
(* Properties *)

\* Every variable holds a value of its type.
TypeOK ==
  /\ pc \in {"called", "tokens", "chars", "checks", "returned"}
  /\ i \in 1..(Len(cfg.argv) + 1)
  /\ read_ptr \in Nat /\ pc = "chars" => read_ptr <= Len(cur_arg) + 1
  /\ accept_dash_args \in BOOLEAN /\ num_unnamed_args \in Nat
  /\ \A n \in DOMAIN parsed : parsed[n].def \in DOMAIN cfg.args \cup {0}
  /\ Len(parsed) <= capacity
  /\ err \in {"none", "SUCCESS", "INVALID_ARGUMENT", "NOT_ENOUGH_MEMORY",
              "ARG_NOT_UNDERSTOOD", "ARG_MISSES_VALUE", "TOO_MANY_ARGS",
              "TOO_FEW_ARGS", "REQUIRED_ARG_MISSING"}

Accepted == pc = "returned" /\ err = "SUCCESS"

\* The characters of a string, and of some strings, dashes left out
LettersOf(string) ==
  SeqX!FlattenSeq([k \in DOMAIN string |->
                     IF string[k] = Dash THEN << >> ELSE <<string[k]>>])
Letters(strings) ==
  SeqX!FlattenSeq([n \in DOMAIN strings |-> LettersOf(strings[n])])

\* An argument as it is spelled on the command line
Spelled(arg) == (IF arg.def = 0 THEN << >> ELSE cfg.args[arg.def].name)
                  \o arg.value

\* What is parsed has every letter of the command line, once and in order,
\* whether it is a name, a value or part of one.
AllAccounted == Accepted =>
  Letters([n \in DOMAIN parsed |-> Spelled(parsed[n])]) = Letters(cfg.argv)

\* A token of boolean arguments only
AllBoolean(token) ==
  /\ Len(token) > 1 /\ token[1] = Dash
  /\ \A k \in 2..Len(token) : Lettered(token[k]) # 0
                              /\ cfg.args[Lettered(token[k])].boolean

\* The same where no token consists of boolean arguments: each token is
\* consumed by one argument or by several, but never by two in the whole.
LettersAccounted ==
  (\A n \in DOMAIN cfg.argv : ~AllBoolean(cfg.argv[n])) => AllAccounted

\* What is returned is right.  What is accepted is within the limits of the
\* configuration: the unnamed arguments are not too few and not too many, the
\* required ones are there, and arguments have values when their definitions
\* say so (ArgParse.h:61).  Every error that the parser finds in the arguments
\* leaves no vector behind, although some have been parsed.  A vector that is
\* refused the memory for one more argument does not: it ends the call at once
\* (ArgParse.c:108), without the clean-up of the other errors.
ResultValid ==
  LET unnamed == {n \in DOMAIN parsed : parsed[n].def = 0}
      named == DOMAIN parsed \ unnamed
  IN
  /\ Accepted =>
       /\ Cardinality(unnamed) \in cfg.min_unnamed_args..cfg.max_unnamed_args
       /\ \A k \in DOMAIN cfg.args :
            cfg.args[k].required => \E n \in named : parsed[n].def = k
       /\ \A n \in named : parsed[n].has_value = ~cfg.args[parsed[n].def].boolean
  /\ pc = "returned" /\ err \notin {"SUCCESS", "NOT_ENOUGH_MEMORY"} =>
       capacity = 0 /\ parsed = << >>

\* "--" ends the arguments with dashes: the tokens behind it are arguments
\* without a name, however they are spelled, the "--" of another included.
DashesEnd == Accepted =>
  \A n \in DOMAIN cfg.argv :
    (/\ cfg.argv[n] = <<Dash, Dash>>
     /\ \A m \in 1..(n - 1) : cfg.argv[m][1] # Dash)
    => /\ Len(parsed) >= Len(cfg.argv) - n
       /\ \A m \in (n + 1)..Len(cfg.argv) :
         parsed[Len(parsed) - Len(cfg.argv) + m]
           = [def |-> 0, has_value |-> TRUE, value |-> cfg.argv[m]]

\* The function returns.
Returns == <>(pc = "returned")
=============================================================================
