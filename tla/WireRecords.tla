---------------------------- MODULE WireRecords ----------------------------
(***************************************************************************)
(* The records of a turn as the replay parser reads them (parse_commands   *)
(* in python/hwm_solver/protocol/replay.py).  A record on the wire is a    *)
(* tag, the three-letter code of an S-record, its numeric fields from left *)
(* to right, and whether length and digits are those the code has in every *)
(* recorded battle.  A command names the fields; an S-record keeps all its *)
(* numbers in "raw".  A field that is absent is Nothing, an absent stack 0.*)
(***************************************************************************)
EXTENDS Integers, Sequences

Nothing == -1

Command == [op |-> "UNKNOWN", code |-> "", actor |-> 0, target |-> 0, x |-> Nothing, y |-> Nothing,
            fromx |-> Nothing, fromy |-> Nothing, amount |-> Nothing, value |-> Nothing,
            duration |-> Nothing, zeros |-> FALSE, raw |-> << >>]

StatusCodes == {"fst", "slw", "bls", "crs", "stn", "dfm", "rgm", "cnf", "sff", "ray"}
DirectDamageCodes == {"mfs", "ltn", "ice", "mar", "swm"}

\* Names of the fields of the S-records whose layout is known, in wire order.
\* A phm-record names the clone before the source, an rgl-record a zero first.
SpecialLayout(code) ==
    CASE code = "rsd" -> <<"actor", "target", "value", "amount">>
      [] code = "phm" -> <<"actor", "amount", "value", "target", "duration">>
      [] code = "car" -> <<"actor", "target", "fromx", "fromy", "x", "y", "duration">>
      [] code = "rn2" -> <<"actor", "amount">>
      [] code = "tel" -> <<"actor", "target", "x", "y", "amount">>
      [] code \in StatusCodes -> <<"actor", "target", "value", "duration", "amount">>
      [] code = "mfd" -> <<"actor", "target", "amount">>
      [] code = "rgl" -> <<"skip", "actor", "amount">>
      [] code \in {"enr", "blt", "btt", "tob"} -> <<"actor", "amount">>
      [] code \in {"sta", "wnd"} -> <<"actor", "target">>
      [] code = "psc" -> <<"actor", "target", "amount", "value">>
      [] code \in DirectDamageCodes -> <<"actor", "target", "value", "amount">>
      [] OTHER -> <<"actor">>

SpecialOp(w) ==
    CASE w.code = "def" -> "DEFEND"
      [] w.code = "car" /\ w.whole -> "CARRIER_RELOCATE"
      [] w.code = "tel" /\ w.whole -> "TELEPORT"
      [] w.code = "rn2" /\ w.whole -> IF w.nums[2] = 0 THEN "RUNE_SPEED_CLEAR" ELSE "RUNE_SPEED_ACTIVATE"
      [] OTHER -> "SPECIAL"

FixedOp(tag) ==
    CASE tag = "m" -> "MOVE"            [] tag = "d" -> "DAMAGE"
      [] tag = "i" -> "STATE"           [] tag = "C" -> "ACTIVATE"
      [] tag = "w" -> "WAIT"            [] tag = "h" -> "HIDE_OR_DEATH"
      [] tag = "u" -> "U_RECORD"        [] tag = "P" -> "P_RECORD"
      [] tag = "W" -> "W_RECORD"        [] tag = "z" -> "Z_RECORD"
      [] tag = "I" -> "I_RECORD"        [] tag = "T" -> "T_RECORD"
      [] tag = "R" -> "R_RECORD"        [] tag = "V" -> "V_RECORD"
      [] tag = "F" -> "F_RECORD"        [] tag = "Y" -> "Y_RECORD"
      [] tag = "x" -> "X_RECORD"        [] tag = "A" -> "OPAQUE_A"
      [] tag = "s" -> "SPAWN_POSITION"  [] tag = "M" -> "SPAWN_ENTITY"
      [] tag = "l" -> "PROC"            [] tag = "f" -> "RESULT"
      [] tag \in {"B", "b", "r"} -> "FORCED_POSITION"
      [] tag \in {"&", "o", "p", "k"} -> "OPAQUE_SHORT"
      [] OTHER -> "UNKNOWN"

\* An I-record names the affected stack first, its source second.
FixedLayout(tag) ==
    CASE tag \in {"m", "B", "b", "r"} -> <<"actor", "x", "y">>
      [] tag \in {"d", "z"} -> <<"actor", "target", "amount">>
      [] tag \in {"W", "I", "T"} -> <<"actor", "target">>
      [] tag = "s" -> <<"actor", "x", "y", "amount">>
      [] tag = "M" -> <<"actor", "value">>
      [] tag \in {"f", "?"} -> << >>
      [] OTHER -> <<"actor">>

\* The numbers nums under the names of a layout, over the defaults.
Named(layout, nums) ==
    [k \in DOMAIN Command |->
        LET places == {i \in 1..Len(layout) : i <= Len(nums) /\ layout[i] = k}
        IN  IF places # {} THEN nums[CHOOSE i \in places : TRUE] ELSE Command[k]]

\* An S-record without the shape of its code keeps only its code and first stack.
SpecialCommand(w) ==
    LET layout == IF w.whole /\ w.code # "def" THEN SpecialLayout(w.code) ELSE <<"actor">>
    IN  [Named(layout, w.nums) EXCEPT !.op = SpecialOp(w), !.code = w.code, !.zeros = w.zeros, !.raw = w.nums]

\* A record of fixed width that is cut short is not recognised at all.
FixedCommand(w) ==
    IF w.whole THEN [Named(FixedLayout(w.tag), w.nums) EXCEPT !.op = FixedOp(w.tag), !.code = w.code]
    ELSE Command

Decode(w) == IF w.tag = "S" THEN SpecialCommand(w) ELSE FixedCommand(w)

Wire(tag, code, nums) == [tag |-> tag, code |-> code, nums |-> nums, whole |-> TRUE, zeros |-> TRUE]
=============================================================================
