------------------------------ MODULE UsageScan ------------------------------
(***************************************************************************)
(* The push-mode scanner that reads usage from a JSON answer while it is   *)
(* relayed.  The answer arrives in pieces cut anywhere; the scanner keeps  *)
(* only the values at its paths, up to a limit.  Bytes are "q" for the     *)
(* quote, "b" for the backslash, the brackets, "," ":" and letters.        *)
(***************************************************************************)
EXTENDS Naturals, Sequences, SequencesExt, FiniteSets

CONSTANTS ScanPaths,      \* the paths, as sequences of member names, "*" any element
          MaxScan,        \* depth the frames reach
          CaptureLimit, KeyLimit,   \* bytes of a captured value, and of a compared name
          Answers0        \* the answers, as trees

ASSUME ScanBounds == {MaxScan, CaptureLimit, KeyLimit} \subseteq Nat \ {0} /\ \A i \in 1..Len(ScanPaths) : Len(ScanPaths[i]) \in 1..MaxScan

(***************************************************************************)
(* Answers: a leaf has bytes; an object has members, an array elements.    *)
(***************************************************************************)
Str(name) == <<"q">> \o name \o <<"q">>
Joined(parts) == FoldLeft(LAMBDA all, p : IF all = <<>> THEN p ELSE all \o <<",">> \o p, <<>>, parts)
\* A leaf, a container of leaves, a container of those, and so on.
Bytes0(t) == t.bytes
Rendered(t, Inner(_)) ==
    CASE t.kind = "leaf" -> t.bytes
      [] t.kind = "arr" -> <<"[">> \o Joined([i \in 1..Len(t.vals) |-> Inner(t.vals[i])]) \o <<"]">>
      [] t.kind = "obj" -> <<"{">> \o Joined([i \in 1..Len(t.vals) |-> Str(t.names[i]) \o <<":">> \o Inner(t.vals[i])]) \o <<"}">>
Bytes1(t) == Rendered(t, Bytes0)
Bytes2(t) == Rendered(t, Bytes1)
Bytes3(t) == Rendered(t, Bytes2)
\* The values a path names, in the order of the answer: its member at the
\* first name, and so on down.  The scanner's paths are of length 1 and 3.
Under(t, name) == IF t.kind = "obj" THEN SelectSeq([i \in 1..Len(t.vals) |-> <<t.names[i], t.vals[i]>>],
                                                   LAMBDA m : m[1] = <<name>>)
                  ELSE <<>>
Elements(t) == IF t.kind = "arr" THEN t.vals ELSE <<>>
\* One member of the answer: the path and the bytes of each value it holds.
Reports(m) ==
    LET whole == IF <<m[1][1]>> \in Range(ScanPaths) /\ Len(m[1]) = 1 THEN <<Bytes2(m[2])>> ELSE <<>>
        deep == IF m[1] = <<"c">> THEN FlattenSeq([i \in 1..Len(Elements(m[2])) |->
                     LET us == Under(Elements(m[2])[i], "u") IN [j \in 1..Len(us) |-> Bytes0(us[j][2])]]) ELSE <<>>
    IN  SelectSeq(whole \o deep, LAMBDA v : Len(v) <= CaptureLimit)
Expected(t) == FlattenSeq([i \in 1..Len(t.vals) |-> Reports(<<t.names[i], t.vals[i]>>)])

VARIABLES doc, pos, chunk,  \* the answer, bytes scanned, and where the current Write began
          sc,               \* the scanner
          found             \* what onValue was given

usvars == <<doc, pos, chunk, sc, found>>

NoCapture == [on |-> FALSE, kind |-> "none", depth |-> 0, start |-> 0, over |-> FALSE, buf |-> <<>>]
Docs == {[tree |-> t, bytes |-> Bytes3(t)] : t \in Answers0}
USInit == /\ doc \in Docs
          /\ pos = 0 /\ chunk = 0 /\ found = <<>>
          /\ sc = [frames |-> <<>>, depth |-> 0, string |-> "no", escape |-> FALSE, scalar |-> FALSE,
                   key |-> <<>>, over |-> FALSE, pending |-> {}, cap |-> NoCapture, rootDone |-> FALSE, dead |-> FALSE]

(***************************************************************************)
(* The scanner, on a state s and the byte at index i.                      *)
(***************************************************************************)
ScanReach(s) == s.depth > 0 /\ s.depth <= MaxScan
top(s) == s.frames[s.depth]
narrow(s, mask, name) == {p \in mask : Len(ScanPaths[p]) >= s.depth /\ ScanPaths[p][s.depth] = name}

\* The bytes of this Write join those of the earlier ones, up to the limit.
appendCapture(cap, bytes) ==
    IF cap.over THEN cap
    ELSE IF Len(cap.buf) + Len(bytes) > CaptureLimit THEN [cap EXCEPT !.over = TRUE, !.buf = <<>>]
    ELSE [cap EXCEPT !.buf = @ \o bytes]
\* A value begins: its paths, and a capture when one ends here.
startValue(s, i, kind) ==
    IF s.depth = 0 THEN [s |-> [s EXCEPT !.dead = s.rootDone], mask |-> IF s.rootDone THEN {} ELSE DOMAIN ScanPaths]
    ELSE LET f == top(s)
             mask == IF ~ScanReach(s) THEN {} ELSE IF f.array THEN narrow(s, f.mask, "*") ELSE s.pending
             t == IF ScanReach(s) /\ ~f.array THEN [s EXCEPT !.pending = {}] ELSE s
         IN  IF ~s.cap.on /\ \E p \in mask : Len(ScanPaths[p]) = s.depth
             THEN [s |-> [t EXCEPT !.cap = [NoCapture EXCEPT !.on = TRUE, !.kind = kind, !.depth = s.depth, !.start = i]],
                   mask |-> {}]
             ELSE [s |-> t, mask |-> mask]
Ends1(s, kind) == s.cap.on /\ s.cap.kind = kind /\ s.depth = s.cap.depth

startString(s, i) ==
    IF ScanReach(s) /\ ~top(s).array /\ top(s).expectKey
    THEN [s EXCEPT !.string = "key", !.key = <<>>, !.over = top(s).mask = {}, !.frames[s.depth].expectKey = FALSE]
    ELSE [startValue(s, i, "string").s EXCEPT !.string = "value"]
keyAppend(s, c) == IF s.string # "key" \/ s.over THEN s
                   ELSE IF Len(s.key) = KeyLimit THEN [s EXCEPT !.over = TRUE]
                   ELSE [s EXCEPT !.key = Append(@, c)]
open0(s, i, array) ==
    LET v == startValue(s, i, "container")
        frame == [array |-> array, expectKey |-> ~array, mask |-> v.mask]
    IN  [v.s EXCEPT !.frames = IF s.depth < MaxScan THEN Append(SubSeq(@, 1, s.depth), frame) ELSE @, !.depth = @ + 1]

\* A value of a kind ended just before index e: the capture is reported, or
\* the answer is over.
EndValue(s, kind, e) ==
    IF Ends1(s, kind)
    THEN LET cap == appendCapture(s.cap, SubSeq(doc.bytes, (IF s.cap.start > chunk THEN s.cap.start ELSE chunk) + 1, e))
         IN  /\ sc' = [s EXCEPT !.cap = NoCapture]
             /\ found' = IF cap.over THEN found ELSE Append(found, cap.buf)
    ELSE sc' = [s EXCEPT !.rootDone = @ \/ s.depth = 0] /\ UNCHANGED found
Kept1(s) == sc' = s /\ UNCHANGED found

\* A byte of a string.
stringBytes(c) ==
    IF sc.escape THEN Kept1([keyAppend(sc, c) EXCEPT !.escape = FALSE])
    ELSE IF c = "b" THEN Kept1([keyAppend(sc, c) EXCEPT !.escape = TRUE])
    ELSE IF c # "q" THEN Kept1(keyAppend(sc, c))
    ELSE IF sc.string = "key"
    THEN Kept1([sc EXCEPT !.string = "no",
                          !.pending = IF sc.over \/ Len(sc.key) # 1 THEN {} ELSE narrow(sc, top(sc).mask, sc.key[1])])
    ELSE EndValue([sc EXCEPT !.string = "no"], "string", pos + 1)
scalarEnds(c) == c \in {",", ":", "}", "]", "q", "{", "["}
\* A byte outside a string.  One that ends a scalar is scanned again.
Structure(c) ==
    CASE c = "q" -> Kept1(startString(sc, pos))
      [] c = ":" -> Kept1(sc)
      [] c = "," -> Kept1(IF ScanReach(sc) /\ ~top(sc).array THEN [sc EXCEPT !.frames[sc.depth].expectKey = TRUE] ELSE sc)
      [] c \in {"{", "["} -> Kept1(open0(sc, pos, c = "["))
      [] c \in {"}", "]"} -> IF sc.depth = 0 THEN Kept1([sc EXCEPT !.dead = TRUE])
                             ELSE EndValue([sc EXCEPT !.depth = @ - 1], "container", pos + 1)
      [] OTHER -> Kept1([startValue(sc, pos, "scalar").s EXCEPT !.scalar = TRUE])

\* One byte of a Write.
WriteByte ==
    /\ pos < Len(doc.bytes)
    /\ LET c == doc.bytes[pos + 1]
       IN  IF sc.dead THEN pos' = pos + 1 /\ Kept1(sc)
           ELSE IF sc.string # "no" THEN pos' = pos + 1 /\ stringBytes(c)
           ELSE IF ~sc.scalar THEN pos' = pos + 1 /\ Structure(c)
           ELSE IF scalarEnds(c) THEN pos' = pos /\ EndValue([sc EXCEPT !.scalar = FALSE], "scalar", pos)
           ELSE pos' = pos + 1 /\ Kept1(sc)
    /\ UNCHANGED <<doc, chunk>>
\* A Write ends: a capture under way keeps its bytes.
WriteEnds ==
    /\ chunk < pos /\ chunk' = pos
    /\ sc' = IF sc.cap.on
             THEN [sc EXCEPT !.cap = appendCapture(sc.cap, SubSeq(doc.bytes, (IF sc.cap.start > chunk THEN sc.cap.start ELSE chunk) + 1, pos))]
             ELSE sc
    /\ UNCHANGED <<doc, pos, found>>
USNext == WriteByte \/ WriteEnds

\* Wherever the answer is cut, the scanner reports exactly the values at its
\* paths, in order and byte for byte, and drops only those over the limit.
ReportsExact == pos = Len(doc.bytes) => found = Expected(doc.tree)
=============================================================================
