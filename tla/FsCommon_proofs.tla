---------------------------- MODULE FsCommon_proofs ----------------------------
(***************************************************************************)
(* Proofs about the option helpers of _fs_common.ts (FsCommon), for every  *)
(* value of the O_* flags that PlatformAssumption allows and every set of  *)
(* encoding names and lower-casing that StringAssumption allows.           *)
(*                                                                         *)
(* getOpenOptions runs seven blocks in a row.  After the first j of them   *)
(* the options are those of the blocks among 1..j whose bits are all in    *)
(* the flag, and customFlags is the flag without those blocks' bits        *)
(* (Partial(flag, j)); each block takes Partial(flag, j - 1) to            *)
(* Partial(flag, j), and the properties follow from Partial(flag, 7).      *)
(***************************************************************************)
EXTENDS FsCommon, TLAPS

\* The blocks among the first j whose bits are all set in flag.
Sel(flag, j) == {k \in 1..j : Blocks[k].bits \subseteq flag}

\* The options and the customFlags after the first j blocks.
Partial(flag, j) ==
  [opts   |-> {o \in Fields : \E k \in Sel(flag, j) : o \in Blocks[k].sets},
   custom |-> {b \in flag : \A k \in Sel(flag, j) : b \notin Blocks[k].bits}]

\* Blocks is a sequence of seven blocks whose options are fields.
LEMMA BlocksFacts ==
  /\ DOMAIN Blocks = 1..7
  /\ \A k \in 1..7 : Blocks[k].sets \subseteq Fields
<1>1. DOMAIN Blocks = 1..7
  BY DEF Blocks
<1>2. ASSUME NEW k \in 1..7 PROVE Blocks[k].sets \subseteq Fields
  <2>1. k = 1 \/ k = 2 \/ k = 3 \/ k = 4 \/ k = 5 \/ k = 6 \/ k = 7
    OBVIOUS
  <2>2. QED
    BY <2>1 DEF Blocks, Fields
<1>3. QED
  BY <1>1, <1>2

\* Before the first block: no options, and customFlags is the flag.
LEMMA PartialZero ==
  ASSUME NEW flag PROVE Partial(flag, 0) = [opts |-> {}, custom |-> flag]
<1>1. Sel(flag, 0) = {}
  BY DEF Sel
<1>2. QED
  BY <1>1 DEF Partial

\* Block j takes the state after j - 1 blocks to the state after j blocks.
LEMMA PartialStep ==
  ASSUME NEW flag, NEW j \in 1..7
  PROVE  TranslateBlock(flag, Partial(flag, j - 1), Blocks[j]) = Partial(flag, j)
<1>1. CASE Blocks[j].bits \subseteq flag
  <2>1. Sel(flag, j) = Sel(flag, j - 1) \cup {j}
    BY <1>1 DEF Sel
  <2>2. Blocks[j].sets \subseteq Fields
    BY BlocksFacts
  <2>3. Partial(flag, j).opts = Partial(flag, j - 1).opts \cup Blocks[j].sets
    BY <2>1, <2>2 DEF Partial
  <2>4. Partial(flag, j).custom = Partial(flag, j - 1).custom \ Blocks[j].bits
    BY <2>1 DEF Partial
  <2>5. QED
    BY <1>1, <2>3, <2>4 DEF TranslateBlock, Partial
<1>2. CASE ~(Blocks[j].bits \subseteq flag)
  <2>1. Sel(flag, j) = Sel(flag, j - 1)
    BY <1>2 DEF Sel
  <2>2. QED
    BY <1>2, <2>1 DEF TranslateBlock, Partial
<1>3. QED
  BY <1>1, <1>2

\* What getOpenOptions returns for a numeric flag.
LEMMA OpenOptionsResult ==
  ASSUME NEW flag, NEW mode, flag # Undefined
  PROVE  GetOpenOptions(flag, mode)
           = [opts |-> Partial(flag, 7).opts, custom |-> Partial(flag, 7).custom,
              mode |-> mode]
<1> DEFINE T(st, k) == TranslateBlock(flag, st, Blocks[k])
<1>0. [opts |-> {}, custom |-> flag] = Partial(flag, 0)
  BY PartialZero
<1>1. T(Partial(flag, 0), 1) = Partial(flag, 1)
  BY PartialStep
<1>2. T(Partial(flag, 1), 2) = Partial(flag, 2)
  BY PartialStep
<1>3. T(Partial(flag, 2), 3) = Partial(flag, 3)
  BY PartialStep
<1>4. T(Partial(flag, 3), 4) = Partial(flag, 4)
  BY PartialStep
<1>5. T(Partial(flag, 4), 5) = Partial(flag, 5)
  BY PartialStep
<1>6. T(Partial(flag, 5), 6) = Partial(flag, 6)
  BY PartialStep
<1>7. T(Partial(flag, 6), 7) = Partial(flag, 7)
  BY PartialStep
<1>8. QED
  BY <1>0, <1>1, <1>2, <1>3, <1>4, <1>5, <1>6, <1>7 DEF GetOpenOptions

-----------------------------------------------------------------------------
\* The bits each block tests and the options it sets, in the code's order.
LEMMA BlockValues ==
  /\ Blocks[1].bits = O_APPEND /\ Blocks[1].sets = {"append"}
  /\ Blocks[2].bits = O_CREAT  /\ Blocks[2].sets = {"create", "write"}
  /\ Blocks[3].bits = O_EXCL   /\ Blocks[3].sets = {"createNew", "read", "write"}
  /\ Blocks[4].bits = O_TRUNC  /\ Blocks[4].sets = {"truncate"}
  /\ Blocks[5].bits = O_RDONLY /\ Blocks[5].sets = {"read"}
  /\ Blocks[6].bits = O_WRONLY /\ Blocks[6].sets = {"write"}
  /\ Blocks[7].bits = O_RDWR   /\ Blocks[7].sets = {"read", "write"}
BY DEF Blocks

\* A block's bits are in the flag as soon as one of them is: each tests
\* no bit or a single one.
LEMMA BlockAllOrNothing ==
  ASSUME NEW flag, NEW k \in 1..7, NEW b \in flag, b \in Blocks[k].bits
  PROVE  Blocks[k].bits \subseteq flag
<1>1. Blocks[k].bits = {} \/ \E c : Blocks[k].bits = {c}
  <2>1. k = 1 \/ k = 2 \/ k = 3 \/ k = 4 \/ k = 5 \/ k = 6 \/ k = 7
    OBVIOUS
  <2>2. QED
    BY <2>1, BlockValues, PlatformAssumption
<1>2. QED
  BY <1>1

\* The customFlags getOpenOptions passes on are the flag without the bits
\* of any block.
LEMMA CustomIsRest ==
  ASSUME NEW flag
  PROVE  Partial(flag, 7).custom
           = flag \ UNION {Blocks[i].bits : i \in DOMAIN Blocks}
<1>1. ASSUME NEW b \in flag
      PROVE  (\A k \in Sel(flag, 7) : b \notin Blocks[k].bits)
               <=> (\A k \in 1..7 : b \notin Blocks[k].bits)
  BY BlockAllOrNothing DEF Sel
<1>2. ASSUME NEW b
      PROVE  b \in UNION {Blocks[i].bits : i \in DOMAIN Blocks}
               <=> \E k \in 1..7 : b \in Blocks[k].bits
  BY BlocksFacts
<1>3. QED
  BY <1>1, <1>2 DEF Partial

\* The options getOpenOptions sets honour the POSIX flag bits.
LEMMA OptsHonoured ==
  ASSUME NEW flag
  PROVE  LET o == Partial(flag, 7).opts
         IN  /\ "read" \in o
             /\ WritesFile(flag) => "write" \in o
             /\ O_CREAT \subseteq flag => "create" \in o
             /\ O_EXCL \subseteq flag => "createNew" \in o
             /\ O_TRUNC \subseteq flag => "truncate" \in o
             /\ O_APPEND \subseteq flag => "append" \in o
<1> DEFINE o == Partial(flag, 7).opts
<1>1. ASSUME NEW k \in 1..7, Blocks[k].bits \subseteq flag,
             NEW f \in Blocks[k].sets
      PROVE  f \in o
  BY <1>1, BlocksFacts DEF Partial, Sel
<1>2. "read" \in o
  BY <1>1, BlockValues, PlatformAssumption
<1>3. WritesFile(flag) => "write" \in o
  <2>1. SUFFICES ASSUME NEW b \in flag, b \in O_WRONLY \/ b \in O_RDWR
                 PROVE  "write" \in o
    BY DEF WritesFile
  <2>2. CASE b \in O_WRONLY
    <3>1. b \in Blocks[6].bits /\ "write" \in Blocks[6].sets
      BY <2>2, BlockValues
    <3>2. Blocks[6].bits \subseteq flag
      BY <3>1, BlockAllOrNothing
    <3>3. QED
      BY <3>1, <3>2, <1>1
  <2>3. CASE b \in O_RDWR
    <3>1. b \in Blocks[7].bits /\ "write" \in Blocks[7].sets
      BY <2>3, BlockValues
    <3>2. Blocks[7].bits \subseteq flag
      BY <3>1, BlockAllOrNothing
    <3>3. QED
      BY <3>1, <3>2, <1>1
  <2>4. QED
    BY <2>1, <2>2, <2>3
<1>4. /\ O_CREAT \subseteq flag => "create" \in o
      /\ O_EXCL \subseteq flag => "createNew" \in o
      /\ O_TRUNC \subseteq flag => "truncate" \in o
      /\ O_APPEND \subseteq flag => "append" \in o
  BY <1>1, BlockValues
<1>5. QED
  BY <1>2, <1>3, <1>4

-----------------------------------------------------------------------------
\* getEncoding never returns the empty string: "" reads as no encoding.
LEMMA EncodingNotEmpty ==
  ASSUME NEW opt \in OptArgs PROVE GetEncoding(opt) # ""
<1>1. CASE opt.kind \in {"undefined", "function"}
  BY <1>1 DEF GetEncoding, Null
<1>2. CASE opt.kind \notin {"undefined", "function"} /\ opt.enc \in {Undefined, ""}
  BY <1>2 DEF GetEncoding, Null
<1>3. CASE opt.kind \notin {"undefined", "function"} /\ opt.enc \notin {Undefined, ""}
  <2>1. GetEncoding(opt) = opt.enc
    BY <1>3 DEF GetEncoding
  <2>2. QED
    BY <1>3, <2>1
<1>4. QED
  BY <1>1, <1>2, <1>3

\* checkEncoding sees only the lower-cased name of a non-empty encoding.
LEMMA CheckByLower ==
  ASSUME NEW x \in EncNames, NEW y \in EncNames, x # "", Lower[y] = Lower[x]
  PROVE  CheckEncoding(y) = CheckEncoding(x)
<1>1. x \notin {Null, ""} /\ y \notin {Null, ""}
  BY StringAssumption
<1>2. QED
  BY <1>1 DEF CheckEncoding

-----------------------------------------------------------------------------
\* Each call's result is computed from that call alone, so each property is
\* preserved by any step once it holds initially.

\* getOpenOptions hands every open flag bit to Deno once: as an option or
\* in customFlags, never both and never neither (lines 141-175), for every
\* platform's O_* values.
THEOREM FlagsTranslatedOnceProved == Spec => []FlagsTranslatedOnce
<1>1. Init => FlagsTranslatedOnce
  BY DEF Init, FlagsTranslatedOnce
<1>2. FlagsTranslatedOnce /\ [Next]_vars => FlagsTranslatedOnce'
  <2> SUFFICES ASSUME FlagsTranslatedOnce, [Next]_vars
               PROVE  FlagsTranslatedOnce'
    OBVIOUS
  <2>1. ASSUME NEW flag \in (SUBSET Bits) \cup {Undefined}, NEW mode \in Modes,
               OpenCall(flag, mode)
        PROVE  FlagsTranslatedOnce'
    <3>1. CASE flag # Undefined
      <4>1. result' = [opts |-> Partial(flag, 7).opts,
                       custom |-> Partial(flag, 7).custom, mode |-> mode]
        BY <2>1, <3>1, OpenOptionsResult DEF OpenCall
      <4>2. QED
        BY <2>1, <4>1, CustomIsRest DEF OpenCall, FlagsTranslatedOnce
    <3>2. CASE flag = Undefined
      BY <2>1, <3>2 DEF OpenCall, FlagsTranslatedOnce
    <3>3. QED
      BY <3>1, <3>2
  <2>2. ASSUME NEW opt \in OptArgs, EncodingCall(opt) PROVE FlagsTranslatedOnce'
    BY <2>2 DEF EncodingCall, FlagsTranslatedOnce
  <2>3. CASE UNCHANGED vars
    BY <2>3 DEF vars, FlagsTranslatedOnce
  <2>4. QED
    BY <2>1, <2>2, <2>3 DEF Next
<1>3. QED
  BY <1>1, <1>2, PTL DEF Spec

\* The options of every numeric open flag honour its POSIX meaning
\* (read, write, create, createNew, truncate, append), for every
\* platform's O_* values.
THEOREM PosixFlagsHonouredProved == Spec => []PosixFlagsHonoured
<1>1. Init => PosixFlagsHonoured
  BY DEF Init, PosixFlagsHonoured
<1>2. PosixFlagsHonoured /\ [Next]_vars => PosixFlagsHonoured'
  <2> SUFFICES ASSUME PosixFlagsHonoured, [Next]_vars
               PROVE  PosixFlagsHonoured'
    OBVIOUS
  <2>1. ASSUME NEW flag \in (SUBSET Bits) \cup {Undefined}, NEW mode \in Modes,
               OpenCall(flag, mode)
        PROVE  PosixFlagsHonoured'
    <3>1. CASE flag # Undefined
      <4>1. result'.opts = Partial(flag, 7).opts /\ call'.flag = flag
        BY <2>1, <3>1, OpenOptionsResult DEF OpenCall
      <4>2. QED
        BY <4>1, OptsHonoured DEF PosixFlagsHonoured
    <3>2. CASE flag = Undefined
      BY <2>1, <3>2 DEF OpenCall, PosixFlagsHonoured
    <3>3. QED
      BY <3>1, <3>2
  <2>2. ASSUME NEW opt \in OptArgs, EncodingCall(opt) PROVE PosixFlagsHonoured'
    BY <2>2 DEF EncodingCall, PosixFlagsHonoured
  <2>3. CASE UNCHANGED vars
    BY <2>3 DEF vars, PosixFlagsHonoured
  <2>4. QED
    BY <2>1, <2>2, <2>3 DEF Next
<1>3. QED
  BY <1>1, <1>2, PTL DEF Spec

\* checkEncoding matches an encoding option without regard to case
\* (line 109): names that lower-case alike resolve alike, whatever the
\* set of names and the option's shape.
THEOREM EncodingCaseInsensitiveProved == Spec => []EncodingCaseInsensitive
<1>1. Init => EncodingCaseInsensitive
  BY DEF Init, EncodingCaseInsensitive
<1>2. EncodingCaseInsensitive /\ [Next]_vars => EncodingCaseInsensitive'
  <2> SUFFICES ASSUME EncodingCaseInsensitive, [Next]_vars
               PROVE  EncodingCaseInsensitive'
    OBVIOUS
  <2>1. ASSUME NEW flag \in (SUBSET Bits) \cup {Undefined}, NEW mode \in Modes,
               OpenCall(flag, mode)
        PROVE  EncodingCaseInsensitive'
    BY <2>1 DEF OpenCall, EncodingCaseInsensitive
  <2>2. ASSUME NEW opt \in OptArgs, EncodingCall(opt)
        PROVE  EncodingCaseInsensitive'
    <3>1. call'.opt = opt /\ call'.op = "encoding"
          /\ result'.enc = CheckEncoding(GetEncoding(opt))
      BY <2>2 DEF EncodingCall
    <3>2. GetEncoding(opt) # ""
      BY EncodingNotEmpty
    <3>3. QED
      BY <3>1, <3>2, CheckByLower DEF EncodingCaseInsensitive
  <2>3. CASE UNCHANGED vars
    BY <2>3 DEF vars, EncodingCaseInsensitive
  <2>4. QED
    BY <2>1, <2>2, <2>3 DEF Next
<1>3. QED
  BY <1>1, <1>2, PTL DEF Spec

====
