----------------------------- MODULE MC_FsCommon -----------------------------
(* The Linux values of the open flags, as bit positions (O_RDONLY is 0),   *)
(* one bit no block translates (O_SYNC's 20), and encoding names in the    *)
(* cases callers write them.                                               *)
EXTENDS FsCommon

CONSTANT undef

MC_O_RDONLY == {}
MC_O_WRONLY == {0}
MC_O_RDWR == {1}
MC_O_CREAT == {6}
MC_O_EXCL == {7}
MC_O_TRUNC == {9}
MC_O_APPEND == {10}
MCBits == {0, 1, 6, 7, 9, 10, 20}
MCModes == {undef, 420}

\* StringPrototypeToLowerCase on the names below.
MCLower ==
  [e \in {"", "utf8", "UTF8", "utf-8", "UTF-8", "Hex", "base64", "ascii",
          "binary", "BINARY", "latin1", "UCS2", "buffer"} |->
     CASE e = "UTF8" -> "utf8"
       [] e = "UTF-8" -> "utf-8"
       [] e = "Hex" -> "hex"
       [] e = "BINARY" -> "binary"
       [] e = "UCS2" -> "ucs2"
       [] OTHER -> e]
MCEncNames == DOMAIN MCLower
=============================================================================
