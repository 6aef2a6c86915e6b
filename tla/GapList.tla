---- MODULE GapList ----
\* The gap list of a part file (GapList.cpp): the ranges of bytes that are still
\* missing, with two caches, the completeness of each part and the size of all
\* gaps.  AddGap and FillGap walk the list and change it on the way: a step here
\* is one turn of their loop, so that what the loop relies on at each turn can
\* be stated and proved.  Everything runs in one thread: calls do not overlap.
EXTENDS Integers, FiniteSets, FiniteSetsExt

CONSTANTS FileSize,     \* m_filesize
          PARTSIZE

ASSUME SizeAssumption == FileSize \in Nat \ {0} /\ PARTSIZE \in Nat \ {0}

VARIABLES gaplist,        \* m_gaplist: the end of each gap |-> its start
          partsComplete,  \* m_partsComplete
          totalGapSize,   \* m_totalGapSize, or NotValid
          call            \* the call of AddGap or FillGap that is under way

vars == <<gaplist, partsComplete, totalGapSize, call>>

----
Bytes == 0 .. FileSize - 1
Ranges == {r \in Bytes \X Bytes : r[1] <= r[2]}

m_iPartCount == IF FileSize % PARTSIZE = 0 THEN FileSize \div PARTSIZE
                                           ELSE FileSize \div PARTSIZE + 1
Parts == 0 .. m_iPartCount - 1

PartOf(byte) == byte \div PARTSIZE
PartStart(part) == part * PARTSIZE
PartEnd(part) == IF part = m_iPartCount - 1 THEN FileSize - 1
                                            ELSE PartStart(part) + PARTSIZE - 1


NotValid == -1
AnyPart == -1           \* the call was not for a part by its number
End == FileSize         \* m_gaplist.end()

\* std::map's lower_bound, insert (which replaces nothing) and erase.
LowerBound(key) == LET following == {e \in DOMAIN gaplist : e >= key}
                   IN  IF following = {} THEN End ELSE CHOOSE e \in following : \A f \in following : e <= f
Insert(list, end, start) ==
    [e \in DOMAIN list \cup {end} |-> IF e \in DOMAIN list THEN list[e] ELSE start]
Erase(list, end) == [e \in DOMAIN list \ {end} |-> list[e]]

Idle == [op |-> "idle", from |-> 0, to |-> 0, it |-> End, part |-> AnyPart]

\* The parts from the one of the first byte to that of the last.
\* Slip: the last one is forgotten.
Mark_Slip(start, end, status) ==
    [p \in Parts |-> IF p >= PartOf(start) /\ p < PartOf(end) THEN status ELSE partsComplete[p]]

Mark(start, end, status) ==
    [p \in Parts |-> IF p \in PartOf(start) .. PartOf(end) THEN status ELSE partsComplete[p]]

----
\* Init, called for a new file (empty) and when a .met file is read (full: the
\* gaps it names are added after it).  A file is never of size 0.
FirstGaps(isEmpty)  == [e \in IF isEmpty THEN {FileSize - 1} ELSE {} |-> 0]
FirstParts(isEmpty) == [p \in Parts |-> IF isEmpty THEN "incomplete" ELSE "complete"]

Init ==
    /\ \E isEmpty \in BOOLEAN : gaplist = FirstGaps(isEmpty) /\ partsComplete = FirstParts(isEmpty)
    /\ totalGapSize = NotValid
    /\ call = Idle

Reset ==
    /\ call = Idle
    /\ \E isEmpty \in BOOLEAN : gaplist' = FirstGaps(isEmpty) /\ partsComplete' = FirstParts(isEmpty)
    /\ totalGapSize' = NotValid
    /\ UNCHANGED call

----
\* AddGap.  The callers keep to the file, so ArgCheck has nothing to correct.
FirstToJoin(start) == LowerBound(IF start > 0 THEN start - 1 ELSE 0)

\* AddGap of a part is AddGap of its bytes.
AddGap(start, end) ==
    /\ call = Idle
    /\ partsComplete' = Mark(start, end, "incomplete")
    /\ totalGapSize' = NotValid
    /\ call' = [op |-> "add", from |-> start, to |-> end, it |-> FirstToJoin(start), part |-> AnyPart]
    /\ UNCHANGED gaplist

\* The gap the iterator is at, and the one behind it.
Current == call.it
CurStart == gaplist[call.it]
Following == LowerBound(call.it + 1)

Adding == call.op = "add" /\ call.it # End

Swallow ==      \* the gap is inside the new one
    /\ Adding
    /\ CurStart >= call.from /\ Current <= call.to
    /\ gaplist' = Erase(gaplist, Current)
    /\ call' = [call EXCEPT !.it = Following]
    /\ UNCHANGED <<partsComplete, totalGapSize>>

\* Slip: only gaps that overlap are joined.
HeadJoins_Slip == CurStart >= call.from /\ CurStart <= call.to

\* The head of the gap is in the new one, or directly behind it.
HeadJoins == CurStart >= call.from /\ CurStart <= call.to + 1

\* Slip: the limit is not extended.
JoinHead_Slip ==
    /\ Adding
    /\ Current > call.to /\ HeadJoins
    /\ gaplist' = Erase(gaplist, Current)
    /\ call' = [call EXCEPT !.it = Following]
    /\ UNCHANGED <<partsComplete, totalGapSize>>

JoinHead ==
    /\ Adding
    /\ Current > call.to /\ HeadJoins
    /\ gaplist' = Erase(gaplist, Current)
    /\ call' = [call EXCEPT !.to = Current, !.it = Following]
    /\ UNCHANGED <<partsComplete, totalGapSize>>

JoinTail ==     \* the tail of the gap is in the new one, or directly before it
    /\ Adding
    /\ CurStart < call.from
    /\ Current <= call.to /\ Current >= call.from - 1
    /\ gaplist' = Erase(gaplist, Current)
    /\ call' = [call EXCEPT !.from = CurStart, !.it = Following]
    /\ UNCHANGED <<partsComplete, totalGapSize>>

Contained ==    \* the new gap is inside this one: return
    /\ Adding
    /\ CurStart < call.from /\ Current > call.to
    /\ call' = Idle
    /\ UNCHANGED <<gaplist, partsComplete, totalGapSize>>

InsertGap ==    \* no gap, or only gaps behind the new one, are left
    /\ call.op = "add"
    /\ call.it # End => CurStart > call.from /\ ~ HeadJoins
    /\ gaplist' = Insert(gaplist, call.to, call.from)
    /\ call' = Idle
    /\ UNCHANGED <<partsComplete, totalGapSize>>

----
\* FillGap.  Of a part, it marks the part as complete when it is done.
FillGap(start, end, part) ==
    /\ call = Idle
    /\ partsComplete' = Mark(start, end, "unknown")
    /\ totalGapSize' = NotValid
    /\ call' = [op |-> "fill", from |-> start, to |-> end, it |-> LowerBound(start), part |-> part]
    /\ UNCHANGED gaplist

Filling == call.op = "fill" /\ call.it # End

Return ==
    /\ call' = Idle
    /\ partsComplete' = IF call.part = AnyPart THEN partsComplete
                        ELSE [partsComplete EXCEPT ![call.part] = "complete"]

FillWhole ==    \* the gap is filled completely
    /\ Filling
    /\ CurStart >= call.from /\ Current <= call.to
    /\ gaplist' = Erase(gaplist, Current)
    /\ call' = [call EXCEPT !.it = Following]
    /\ UNCHANGED <<partsComplete, totalGapSize>>

FillHead ==     \* its lower part is filled
    /\ Filling
    /\ CurStart >= call.from /\ Current > call.to /\ CurStart <= call.to
    /\ gaplist' = [gaplist EXCEPT ![Current] = call.to + 1]
    /\ Return
    /\ UNCHANGED totalGapSize

Cut ==          \* its middle is filled: it becomes the second of two gaps
    /\ Filling
    /\ CurStart < call.from /\ Current > call.to
    /\ gaplist' = Insert([gaplist EXCEPT ![Current] = call.to + 1], call.from - 1, CurStart)
    /\ Return
    /\ UNCHANGED totalGapSize

FillTail ==     \* its upper part is filled
    /\ Filling
    /\ CurStart < call.from /\ Current <= call.to /\ Current >= call.from
    /\ gaplist' = Erase(Insert(gaplist, call.from - 1, CurStart), Current)
    /\ call' = [call EXCEPT !.it = Following]
    /\ UNCHANGED <<partsComplete, totalGapSize>>

Filled ==       \* no gap, or only gaps behind the range, are left
    /\ call.op = "fill"
    /\ call.it # End => CurStart > call.to
    /\ Return
    /\ UNCHANGED <<gaplist, totalGapSize>>

----
\* The sizes of the gaps, as they are added up: all, and those in a part.
Sum(list) == FoldSet(LAMBDA e, size : size + (e - list[e] + 1), 0, DOMAIN list)

GapsIn(start, end) == {e \in DOMAIN gaplist : gaplist[e] <= end /\ e >= start}
SizeInPart(part) ==
    LET first == PartStart(part)
        last  == PartEnd(part)
    IN  FoldSet(LAMBDA e, size : size + (IF e < last THEN e ELSE last)
                                      - (IF gaplist[e] > first THEN gaplist[e] ELSE first) + 1,
                0, GapsIn(first, last))

\* GetGapSize and IsComplete of a part fill in what the caches lack.
GetGapSize ==
    /\ call = Idle
    /\ totalGapSize' = IF totalGapSize = NotValid THEN Sum(gaplist) ELSE totalGapSize
    /\ UNCHANGED <<gaplist, partsComplete, call>>

RangeIsComplete(start, end) == GapsIn(start, end) = {}

IsComplete(part) ==
    /\ call = Idle
    /\ partsComplete[part] = "unknown"
    /\ partsComplete' = [partsComplete EXCEPT ![part] =
            IF RangeIsComplete(PartStart(part), PartEnd(part)) THEN "complete" ELSE "incomplete"]
    /\ UNCHANGED <<gaplist, totalGapSize, call>>

----
AddStep  == Swallow \/ JoinHead \/ JoinTail \/ Contained \/ InsertGap
FillStep == FillWhole \/ FillHead \/ Cut \/ FillTail \/ Filled

Next ==
    \/ Reset
    \/ \E r \in Ranges : AddGap(r[1], r[2]) \/ FillGap(r[1], r[2], AnyPart)
    \/ \E p \in Parts : \/ AddGap(PartStart(p), PartEnd(p))
                        \/ FillGap(PartStart(p), PartEnd(p), p)
                        \/ IsComplete(p)
    \/ GetGapSize
    \/ AddStep
    \/ FillStep

Spec == Init /\ [][Next]_vars

----
\* What is claimed.

\* The bytes in the gaps, and those that are missing once the call under way
\* has done its work.
Covered(list) == UNION {list[e] .. e : e \in DOMAIN list}
Missing == CASE call.op = "add"  -> Covered(gaplist) \cup (call.from .. call.to)
             [] call.op = "fill" -> Covered(gaplist) \ (call.from .. call.to)
             [] OTHER            -> Covered(gaplist)

\* Gaps are not empty, do not overlap and do not touch: AddGap joins what it
\* meets, FillGap leaves a filled byte between the two halves, and no insertion
\* meets the end of another gap (where std::map::insert would do nothing).
GapsApart ==
    /\ \A e \in DOMAIN gaplist : gaplist[e] <= e
    /\ \A e, f \in DOMAIN gaplist : e < f => e + 1 < gaplist[f]

\* The caches agree with the gaps after any sequence of calls: a part that is
\* said to be complete misses nothing, one said to be incomplete does, the size
\* of all gaps is that of the missing bytes, and so is the size in each part.
CachesAreTrue ==
    /\ \A p \in Parts :
          /\ partsComplete[p] = "complete"   => Missing \cap (PartStart(p) .. PartEnd(p)) = {}
          /\ partsComplete[p] = "incomplete" => Missing \cap (PartStart(p) .. PartEnd(p)) # {}
          /\ call = Idle => SizeInPart(p) = Cardinality(Missing \cap (PartStart(p) .. PartEnd(p)))
    /\ totalGapSize # NotValid => totalGapSize = Cardinality(Missing)

\* AddGap adds exactly the range it is given to what is missing, FillGap takes
\* it away, and nothing else changes it, however gaps are cut and joined on the
\* way.
M == INSTANCE MissingBytes WITH missing <- Missing, doing <- call.op
IsMissingBytes == M!Spec
====
