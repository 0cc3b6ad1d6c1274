------------------------------- MODULE FsCommon -------------------------------
(***************************************************************************)
(* The option helpers of src/ext/node/polyfills/_fs/_fs_common.ts that     *)
(* turn node:fs arguments into what Deno's ops take: getOpenOptions (a     *)
(* numeric open flag to Deno.OpenOptions plus customFlags), getEncoding    *)
(* and checkEncoding (the encoding of an options argument).                *)
(*                                                                         *)
(* A flag word is the set of its bit positions, so `flag & X` is flag \cap *)
(* X, `(flag & X) === X` is X \subseteq flag and `customFlags &= ~X` is    *)
(* customFlags \ X.  The O_* values come from the platform (outside src/); *)
(* they are CONSTANTS, given their Linux values in the MC module, where    *)
(* O_RDONLY is 0, the empty set of bits.                                   *)
(***************************************************************************)
EXTENDS Naturals, FiniteSets

CONSTANTS
  O_APPEND, O_CREAT, O_EXCL, O_TRUNC, O_RDONLY, O_WRONLY, O_RDWR,
  Bits,        \* the bit positions a flag word may have
  Modes,       \* file modes a caller may pass, with Undefined
  Undefined,   \* the JavaScript undefined
  EncNames,    \* encoding strings a caller may pass
  Lower        \* StringPrototypeToLowerCase on EncNames

ASSUME FlagAssumption ==
  /\ \A X \in {O_APPEND, O_CREAT, O_EXCL, O_TRUNC, O_RDONLY, O_WRONLY, O_RDWR} :
       X \subseteq Bits
  /\ Lower \in [EncNames -> STRING]

\* Every platform Deno runs on defines O_RDONLY as 0 and each other O_*
\* flag as a single bit (Linux, macOS and Windows alike).
ASSUME PlatformAssumption ==
  /\ O_RDONLY = {}
  /\ \A X \in {O_APPEND, O_CREAT, O_EXCL, O_TRUNC, O_WRONLY, O_RDWR} :
       \E b \in Bits : X = {b}

\* The fields of Deno.OpenOptions the helper sets (absent reads as false).
Fields == {"read", "write", "append", "create", "createNew", "truncate"}

\* The translation blocks of getOpenOptions, in the order of the code: the
\* bits tested and the options each sets.
Blocks ==
  << [bits |-> O_APPEND, sets |-> {"append"}],
     [bits |-> O_CREAT,  sets |-> {"create", "write"}],
     [bits |-> O_EXCL,   sets |-> {"createNew", "read", "write"}],
     [bits |-> O_TRUNC,  sets |-> {"truncate"}],
     [bits |-> O_RDONLY, sets |-> {"read"}],
     [bits |-> O_WRONLY, sets |-> {"write"}],
     [bits |-> O_RDWR,   sets |-> {"read", "write"}] >>

\* Variant of TranslateBlock that tests `flag & X` for non-zero.
TranslateBlockAnyBit(flag, st, b) ==
  IF b.bits \cap flag # {}
    THEN [opts |-> st.opts \cup b.sets, custom |-> st.custom \ b.bits]
    ELSE st

\* Variant of TranslateBlock that forgets `customFlags &= ~X`.
TranslateBlockKeepCustom(flag, st, b) ==
  IF b.bits \subseteq flag
    THEN [opts |-> st.opts \cup b.sets, custom |-> st.custom]
    ELSE st

\* One `if ((flag & X) === X) { openOptions.f = true ...;
\* customFlags &= ~X; }` block.
TranslateBlock(flag, st, b) ==
  IF b.bits \subseteq flag
    THEN [opts |-> st.opts \cup b.sets, custom |-> st.custom \ b.bits]
    ELSE st

\* getOpenOptions(flag, mode).  A flag that is not a number gives
\* { create, append, mode }; otherwise the seven blocks run in order from
\* customFlags = flag, and what is left of it is passed as customFlags.
GetOpenOptions(flag, mode) ==
  IF flag = Undefined
    THEN [opts |-> {"create", "append"}, custom |-> Undefined, mode |-> mode]
    ELSE LET T(st, k) == TranslateBlock(flag, st, Blocks[k])
             st == T(T(T(T(T(T(T([opts |-> {}, custom |-> flag],
                                  1), 2), 3), 4), 5), 6), 7)
         IN  [opts |-> st.opts, custom |-> st.custom, mode |-> mode]

-----------------------------------------------------------------------------
\* Outcomes of checkEncoding besides an encoding: null, and the two throws.
Null == "null"
NotImplemented == "notImplemented"
Invalid == "invalid"

\* A caller's encoding is a string, never null, and lower-casing leaves a
\* string empty exactly when it was empty.
ASSUME StringAssumption ==
  /\ Null \notin EncNames
  /\ \A y \in EncNames : Lower[y] = "" <=> y = ""

\* An options argument: undefined, a callback, an encoding string, or an
\* object with an encoding field (possibly undefined).
OptArgs ==
  {[kind |-> "undefined"], [kind |-> "function"]}
    \cup [kind : {"string"}, enc : EncNames]
    \cup [kind : {"object"}, enc : EncNames \cup {Undefined}]

\* getEncoding(optOrCallback): null for a missing option or a callback,
\* the string itself, or the object's encoding (null if missing or "").
GetEncoding(opt) ==
  CASE opt.kind \in {"undefined", "function"} -> Null
    [] opt.enc \in {Undefined, ""} -> Null
    [] OTHER -> opt.enc

\* Variant of CheckEncoding that compares the name before lower-casing it.
CheckEncodingNoLower(enc) ==
  IF enc \in {Null, ""} THEN Null
  ELSE CASE enc \in {"utf8", "hex", "base64", "ascii"} -> enc
         [] enc = "utf-8" -> "utf8"
         [] enc = "binary" -> "binary"
         [] enc \in {"utf16le", "latin1", "ucs2"} -> NotImplemented
         [] OTHER -> Invalid

\* checkEncoding(encoding): null stays null; the lower-cased name is
\* accepted if it is utf8, hex, base64 or ascii, mapped if utf-8 or
\* binary, reported as not implemented for utf16le, latin1 and ucs2, and
\* otherwise rejected.
CheckEncoding(enc) ==
  IF enc \in {Null, ""} THEN Null
  ELSE LET e == Lower[enc]
       IN  CASE e \in {"utf8", "hex", "base64", "ascii"} -> e
             [] e = "utf-8" -> "utf8"
             [] e = "binary" -> "binary"
             [] e \in {"utf16le", "latin1", "ucs2"} -> NotImplemented
             [] OTHER -> Invalid

-----------------------------------------------------------------------------
(***************************************************************************)
(* The calls, one at a time: each state is the last call and its result.   *)
(***************************************************************************)
VARIABLES call, result

vars == <<call, result>>

Init ==
  /\ call = [op |-> "none"]
  /\ result = [enc |-> Null]

\* fs.open and friends pass their flag and mode to getOpenOptions.
OpenCall(flag, mode) ==
  /\ call' = [op |-> "open", flag |-> flag, mode |-> mode]
  /\ result' = GetOpenOptions(flag, mode)

\* fs.readFile and friends resolve their encoding option.
EncodingCall(opt) ==
  /\ call' = [op |-> "encoding", opt |-> opt]
  /\ result' = [enc |-> CheckEncoding(GetEncoding(opt))]

Next ==
  \/ \E flag \in (SUBSET Bits) \cup {Undefined}, mode \in Modes :
       OpenCall(flag, mode)
  \/ \E opt \in OptArgs : EncodingCall(opt)

Spec == Init /\ [][Next]_vars

-----------------------------------------------------------------------------
(***************************************************************************)
(* Properties, stated against the POSIX meaning of the flag bits.          *)
(***************************************************************************)

\* The access mode of a flag word.
WritesFile(flag) == flag \cap (O_WRONLY \cup O_RDWR) # {}

\* The result of every call has the shape the code builds.
TypeOK ==
  result \in [opts : SUBSET Fields, custom : (SUBSET Bits) \cup {Undefined},
              mode : Modes]
            \cup [enc : {Null, NotImplemented, Invalid, "utf8", "hex",
                         "base64", "ascii", "binary"}]

\* Every bit getOpenOptions translates into an option is taken out of
\* customFlags, and every bit it does not translate is passed on, so no
\* open flag reaches Deno twice or is lost (lines 141-175).
FlagsTranslatedOnce ==
  call.op = "open" /\ call.flag # Undefined =>
    result.custom =
      call.flag \ UNION {Blocks[i].bits : i \in DOMAIN Blocks}

\* The options honour the POSIX meaning of the flag: a read-only or
\* read-write flag opens for reading, a write-only or read-write one for
\* writing, and O_CREAT, O_EXCL, O_TRUNC and O_APPEND give create,
\* createNew, truncate and append.
PosixFlagsHonoured ==
  call.op = "open" /\ call.flag # Undefined =>
    LET f == call.flag
        o == result.opts
    IN  /\ (~WritesFile(f) \/ O_RDWR \subseteq f) => "read" \in o
        /\ WritesFile(f) => "write" \in o
        /\ O_CREAT \subseteq f => "create" \in o
        /\ O_EXCL \subseteq f => "createNew" \in o
        /\ O_TRUNC \subseteq f => "truncate" \in o
        /\ O_APPEND \subseteq f => "append" \in o

\* The encoding of a file option is matched without regard to case:
\* checkEncoding lower-cases it before any comparison (line 109), so two
\* names that differ only in case, such as "UTF-8" and "utf-8", resolve to
\* the same encoding or the same error.
EncodingCaseInsensitive ==
  LET x == GetEncoding(call.opt)
  IN  call.op = "encoding" /\ x \in EncNames =>
        \A y \in EncNames : Lower[y] = Lower[x] => result.enc = CheckEncoding(y)

=============================================================================
