------------------------------ MODULE Startup ------------------------------
(***************************************************************************)
(* The emulator before it loads a file: handle_args, the part of logging   *)
(* that keeps state, and init with the geometry create_cache computes.     *)
(*                                                                         *)
(* An option is its letter and a number: the value of atoi or atol, the    *)
(* level of -v, the file of -i, and for -o and -c whether the file can be  *)
(* opened (1) or not (0).                                                  *)
(***************************************************************************)
EXTENDS Integers, Sequences

CONSTANTS
  UIntMod,           \* 2^32, for the unsigned fields of cache_t
  MAX_NUM_INSTR

ASSUME StartupAssumption == UIntMod \in Nat \ {0} /\ MAX_NUM_INSTR \in Nat

VARIABLES
  argv, optind,
  conf,        \* what the options set, by letter
  terminate,   \* logging has seen a fatal message
  cache,       \* guest.cache
  main,        \* where main() is
  exit         \* how the process ended
startvars == <<argv, optind, conf, terminate, cache, main, exit>>

NULL == 0
stdout == 2
NoCache == [S |-> 0, A |-> 0, B |-> 0, C |-> 0, d |-> -1]
Geometry == {"A", "B", "C", "d"}
Files == {"o", "c"}

\* The file variables are NULL or 1, an open file; conf["o"] is outfile, with 2
\* for stdout.
Defaults == [A |-> -1, B |-> -1, C |-> -1, d |-> -1, l |-> MAX_NUM_INSTR, v |-> 0,
             i |-> NULL, o |-> stdout, c |-> NULL]

Option == [opt : DOMAIN Defaults \cup {"?"}, val : Int]

StartInit(args) ==
  /\ argv = args /\ optind = 1
  /\ conf = Defaults
  /\ terminate = FALSE
  /\ cache = NoCache
  /\ main = "args" /\ exit = "no"

debug_level(v) == IF v \in 0 .. 2 THEN v ELSE 1

Fails(o) == o.opt \in Files /\ o.val = NULL

\* Mutant: parsing goes on after a file that cannot be opened.
LastOption_mutant == optind = Len(argv)

\* handle_args returns after the last option and after a fatal message.
LastOption == optind = Len(argv) \/ Fails(argv[optind])

\* One round of the getopt loop; an unknown option has the letter "?".
ParseOption ==
  /\ main = "args" /\ optind <= Len(argv)
  /\ LET o == argv[optind]
         val == IF o.opt = "v" THEN debug_level(o.val) ELSE o.val
     IN  /\ conf' = IF o.opt = "?" THEN conf ELSE [conf EXCEPT ![o.opt] = val]
         /\ terminate' = (terminate \/ Fails(o))
  /\ optind' = optind + 1
  /\ main' = IF LastOption THEN "init" ELSE "args"
  /\ UNCHANGED <<argv, cache, exit>>

NoOptions ==
  /\ main = "args" /\ optind > Len(argv)
  /\ main' = "init"
  /\ UNCHANGED <<argv, optind, conf, terminate, cache, exit>>

-----------------------------------------------------------------------------
unsigned(n) == n % UIntMod

\* Mutant: the geometry is enough for a cache.
WantsCache_mutant == \A k \in Geometry \ {"d"} : conf[k] # -1

WantsCache == \A k \in Geometry : conf[k] # -1

BlockBytes == unsigned(unsigned(conf["A"]) * unsigned(conf["B"]))

create_cache == [S |-> unsigned(conf["C"]) \div BlockBytes, A |-> unsigned(conf["A"]),
                 B |-> unsigned(conf["B"]), C |-> unsigned(conf["C"]),
                 d |-> unsigned(conf["d"])]

\* init resets the three file variables, whatever -o said.
init ==
  /\ main = "init"
  /\ conf' = [conf EXCEPT !["o"] = stdout]
  /\ IF WantsCache /\ BlockBytes = 0
     THEN exit' = "sigfpe" /\ main' = "exit" /\ UNCHANGED cache
     ELSE /\ cache' = IF WantsCache THEN create_cache ELSE NoCache
          /\ main' = "load" /\ UNCHANGED exit
  /\ UNCHANGED <<argv, optind, terminate>>

start == ParseOption \/ NoOptions \/ init

-----------------------------------------------------------------------------
(* What the command line asks for: the last value of each option, up to and *)
(* with the first file that cannot be opened.                               *)
Heard == {n \in DOMAIN argv : \A m \in 1 .. n - 1 : ~Fails(argv[m])}
Given(k) == {n \in Heard : argv[n].opt = k}
Asked(k) ==
  IF Given(k) = {} THEN Defaults[k]
  ELSE LET n == CHOOSE x \in Given(k) : \A y \in Given(k) : y <= x
       IN  IF k = "v" THEN debug_level(argv[n].val) ELSE argv[n].val
=============================================================================
