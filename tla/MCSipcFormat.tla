----------------------------- MODULE MCSipcFormat -----------------------------
(* Instances of SipcFormat: every format of up to three items drawn from   *)
(* the kinds whose lengths lie on either side of the limits of the code.   *)
EXTENDS SipcFormat, SequencesExt

raw     == [kind |-> "raw", len |-> 1, args |-> 0]
bool    == [kind |-> "atom", len |-> 1, args |-> 1]
double  == [kind |-> "atom", len |-> 20, args |-> 1]
below(n) == [kind |-> "negative", len |-> n, args |-> 1]
percent == [kind |-> "atom", len |-> 1, args |-> 0]
str(n)  == [kind |-> "string", len |-> n, args |-> 1]
strn(n) == [kind |-> "string", len |-> n, args |-> 2]
list(n) == [kind |-> "array", len |-> n, args |-> 1]
copy(n) == [kind |-> "copy", len |-> n, args |-> 2]
bad     == [kind |-> "bad", len |-> 0, args |-> 0]

AllItems  == {raw, bool, double, below(2), below(17), str(0), strn(16), str(25), list(6), copy(4),
              copy(23), bad}
ScalarItems == {raw, bool, percent, str(3)}
CopyItems   == {raw, bool, copy(4), copy(23)}

AllFormats    == BoundedSeq(AllItems, 3)
ScalarFormats == BoundedSeq(ScalarItems, 3)
CopyFormats   == BoundedSeq(CopyItems, 3)

(* Below, at and above MAX_ATOM_SIZE, and large enough for some messages.  *)
MCBufSizes == {0, 20, 21, 24, 40, 46}
===============================================================================
