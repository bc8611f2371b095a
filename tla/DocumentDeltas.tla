--------------------------- MODULE DocumentDeltas ---------------------------
(***************************************************************************)
(* A document as its user sees it (schema_document.py) beside the document *)
(* the replicated runtime holds (crdt.py): an edit changes the runtime's   *)
(* document, the runtime reports a delta, and Document.receive_changes     *)
(* walks the delta to bring the user's copy after it.  There is one text   *)
(* element, a list of formatted runs, and one list of children.            *)
(*                                                                         *)
(* A character or a child is a number of its own, so that order shows.     *)
(***************************************************************************)
EXTENDS Integers, Sequences

CONSTANTS MaxText,     \* bound: characters ever inserted
          MaxChildren  \* bound: children ever inserted

VARIABLES text,        \* the runtime's text: a sequence of [c, bold]
          children,    \* the runtime's children
          textMade,    \* how many characters there have been
          childrenMade,\* how many children
          delta,       \* what is left of the delta being applied
          runs,        \* textNode._data["delta"]
          nodes,       \* target._data["children"]
          i, retain, offset,  \* the variables of receive_changes, i from 1
          done,        \* `deleted` or `formatted` of the item being applied
          failed,      \* an exception has left receive_changes
          rough        \* an edit has been made that the walk does not follow

vars == <<text, children, textMade, childrenMade, delta, runs, nodes, i, retain, offset,
          done, failed, rough>>
runtime == <<text, children, textMade, childrenMade, rough>>

TypeOK == /\ \A k \in 1..Len(text) : text[k].c \in 1..MaxText /\ text[k].bold \in BOOLEAN
          /\ \A k \in 1..Len(runs) : runs[k].bold \in BOOLEAN
          /\ {nodes[k] : k \in 1..Len(nodes)} \subseteq 1..childrenMade
          /\ i \in 1..(Len(runs) + 1) /\ retain \in Int /\ offset \in Nat
          /\ failed \in BOOLEAN /\ rough \in BOOLEAN

Init == /\ text = <<>> /\ children = <<>> /\ textMade = 0 /\ childrenMade = 0
        /\ delta = <<>> /\ runs = <<[insert |-> <<>>, bold |-> FALSE]>> /\ nodes = <<>>
        /\ i = 1 /\ retain = 0 /\ offset = 0 /\ done = 0 /\ failed = FALSE /\ rough = FALSE

-----------------------------------------------------------------------------
(* slices, which Python cuts to what there is                               *)
Upto(s, n) == SubSeq(s, 1, n)
From(s, n) == SubSeq(s, n + 1, Len(s))
Without(s, at, n) == Upto(s, at) \o From(s, at + n)
With(s, at, new) == Upto(s, at) \o new \o From(s, at)

-----------------------------------------------------------------------------
(* The runtime (crdt.py): apply_changes, and the delta _handle_event makes. *)
(* A delta of one edit is a retain, left out at the start, and the change.  *)

Item(kind, n, new) == [kind |-> kind, n |-> n, new |-> new]
Delta(kind, at, n, new) ==
    (IF at = 0 THEN <<>> ELSE <<Item(IF kind \in {"add", "drop"} THEN "skip" ELSE "retain",
                                     at, <<>>)>>)
    \o <<Item(kind, n, new)>>

(* receive_changes is called while the edit is made, and starts anew        *)
Report(items) ==
    /\ delta' = items /\ i' = 1 /\ retain' = 0 /\ offset' = 0 /\ done' = 0
    /\ UNCHANGED <<runs, nodes, failed>>


(* insertText: the new characters are formatted as the one before them is   *)
InsertText(at, n) ==
    /\ textMade + n <= MaxText
    /\ LET bold == at > 0 /\ text[at].bold
           new == [k \in 1..n |-> textMade + k]
       IN /\ text' = With(text, at, [k \in 1..n |-> [c |-> new[k], bold |-> bold]])
          /\ Report(Delta("insert", at, n, new))
    /\ textMade' = textMade + n
    /\ UNCHANGED <<children, childrenMade, rough>>

(* deleteText                                                               *)
DeleteText(at, n) ==
    /\ text' = Without(text, at, n)
    /\ rough' = (rough \/ n > 1 \/ Len(text) = 1 \/ \E k \in 1..Len(text) : text[k].bold)
    /\ Report(Delta("delete", at, n, <<>>))
    /\ UNCHANGED <<children, textMade, childrenMade>>

(* formatText, of a stretch that is not formatted yet                       *)
FormatText(at, n) ==
    /\ \A k \in (at + 1)..(at + n) : ~text[k].bold
    /\ text' = [k \in 1..Len(text) |->
                   IF k \in (at + 1)..(at + n) THEN [text[k] EXCEPT !.bold = TRUE]
                   ELSE text[k]]
    /\ rough' = (rough \/ \E k \in (at + n + 1)..Len(text) : text[k].bold)
    /\ Report(Delta("format", at, n, <<>>))
    /\ UNCHANGED <<children, textMade, childrenMade>>

InsertChild(at) ==
    /\ childrenMade < MaxChildren
    /\ children' = With(children, at, <<childrenMade + 1>>)
    /\ childrenMade' = childrenMade + 1
    /\ Report(Delta("add", at, 1, <<childrenMade + 1>>))
    /\ UNCHANGED <<text, textMade, rough>>

DeleteChild(at) ==
    /\ children' = Without(children, at, 1)
    /\ Report(Delta("drop", at, 1, <<>>))
    /\ UNCHANGED <<text, textMade, childrenMade, rough>>

(* a peer puts a child after one and then deletes that one, and both come   *)
(* in one update: the delta drops the old child before it adds the new one  *)
ReplaceChild(at) ==
    /\ childrenMade < MaxChildren /\ rough' = TRUE
    /\ children' = With(Without(children, at, 1), at, <<childrenMade + 1>>)
    /\ childrenMade' = childrenMade + 1
    /\ Report(Append(Delta("drop", at, 1, <<>>), Item("add", 1, <<childrenMade + 1>>)))
    /\ UNCHANGED <<text, textMade>>

Edit ==
    /\ delta = <<>>
    /\ \/ \E at \in 0..Len(text) : \E n \in 1..MaxText : InsertText(at, n)
       \/ \E at \in 0..Len(text) : \E n \in 1..(Len(text) - at) : DeleteText(at, n)
       \/ \E at \in 0..Len(text) : \E n \in 1..(Len(text) - at) : FormatText(at, n)
       \/ \E at \in 0..Len(children) : InsertChild(at)
       \/ \E at \in 0..(Len(children) - 1) : DeleteChild(at) \/ ReplaceChild(at)

-----------------------------------------------------------------------------
(* Document.receive_changes, an iteration of its loops at a time            *)

op == Head(delta)
here == runs[i].insert                    \* targetDelta[i]["insert"]
start == Upto(here, retain - offset)
end == From(here, retain - offset)
remaining == op.n - done

Run(s, bold) == [insert |-> s, bold |-> bold]
SetHere(s) == [runs EXCEPT ![i].insert = s]

Applying(kind) == delta # <<>> /\ op.kind = kind
NextItem == delta' = Tail(delta) /\ done' = 0
Fail == /\ failed' = TRUE /\ delta' = <<>> /\ done' = 0
        /\ UNCHANGED <<runtime, nodes, i, retain, offset>>

(* the children: retain, insert, delete                                     *)
Skip ==
    /\ Applying("skip") /\ NextItem
    /\ retain' = retain + op.n
    /\ UNCHANGED <<runtime, runs, nodes, i, offset, failed>>

(* list.insert counts a negative place from the end                         *)
Place == IF retain >= 0 THEN retain
         ELSE IF Len(nodes) + retain >= 0 THEN Len(nodes) + retain ELSE 0

Add ==
    /\ Applying("add") /\ NextItem
    /\ nodes' = With(nodes, Place, op.new)
    /\ retain' = retain + op.n
    /\ UNCHANGED <<runtime, runs, i, offset, failed>>

(* (mutant of Drop: the children before the place are removed)              *)
DropBefore ==
    /\ Applying("drop") /\ NextItem
    /\ nodes' = Without(nodes, Place - op.n, op.n)
    /\ retain' = retain - op.n
    /\ UNCHANGED <<runtime, runs, i, offset, failed>>

Drop ==
    /\ Applying("drop") /\ NextItem
    /\ nodes' = Without(nodes, Place, op.n)
    /\ retain' = retain - op.n
    /\ UNCHANGED <<runtime, runs, i, offset, failed>>

(* the text: a plain retain goes on to the run its end is in or at          *)
Retain ==
    /\ Applying("retain") /\ done = 0
    /\ retain' = retain + op.n /\ done' = 1
    /\ UNCHANGED <<runtime, delta, runs, nodes, i, offset, failed>>

Beyond == i > Len(runs)

Advance ==
    /\ Applying("retain") /\ done = 1 /\ ~Beyond
    /\ IF retain > offset + Len(here)
       THEN offset' = offset + Len(here) /\ i' = i + 1 /\ UNCHANGED <<delta, done>>
       ELSE NextItem /\ UNCHANGED <<i, offset>>
    /\ UNCHANGED <<runtime, runs, nodes, retain, failed>>

(* an insert ends the text or goes into the run                             *)
Insert ==
    /\ Applying("insert") /\ NextItem
    /\ retain' = retain + op.n
    /\ IF Beyond
       THEN /\ runs' = Append(runs, Run(op.new, FALSE))
            /\ i' = i + 1 /\ offset' = offset + op.n
       ELSE runs' = SetHere(start \o op.new \o end) /\ UNCHANGED <<i, offset>>
    /\ UNCHANGED <<runtime, nodes, failed>>

(* a delete or a format is done when it has counted its length              *)
Done ==
    /\ delta # <<>> /\ op.kind \in {"delete", "format"} /\ remaining <= 0
    /\ NextItem
    /\ retain' = IF op.kind = "format" THEN retain + op.n ELSE retain
    /\ UNCHANGED <<runtime, runs, nodes, i, offset, failed>>

Deleting == Applying("delete") /\ remaining > 0 /\ ~Beyond
Formatting == Applying("format") /\ remaining > 0 /\ ~Beyond

(* targetDelta[i] when there is none: IndexError                            *)
OutOfRuns ==
    /\ delta # <<>> /\ Beyond
    /\ \/ op.kind = "retain" /\ done = 1
       \/ op.kind \in {"delete", "format"} /\ remaining > 0
    /\ Fail /\ UNCHANGED runs

(* the delete starts inside the run, and takes all of its end or does not:  *)
(* then what is left of the run, not what went, is counted as deleted       *)
DeleteEnd ==
    /\ Deleting /\ retain > offset /\ remaining >= Len(end)
    /\ runs' = SetHere(start)
    /\ done' = done + Len(end) /\ i' = i + 1 /\ offset' = offset + Len(here)
    /\ UNCHANGED <<runtime, delta, nodes, retain, failed>>

DeleteMiddle ==
    /\ Deleting /\ retain > offset /\ remaining < Len(end)
    /\ LET left == start \o From(end, remaining)
       IN runs' = SetHere(left) /\ done' = done + Len(left)
    /\ UNCHANGED <<runtime, delta, nodes, i, retain, offset, failed>>

(* the whole run goes, and a list is added to a number: TypeError           *)
DeleteRun ==
    /\ Deleting /\ retain <= offset /\ remaining >= Len(here)
    /\ runs' = Without(runs, i - 1, 1)
    /\ Fail

DeleteFront ==
    /\ Deleting /\ retain <= offset /\ remaining < Len(here)
    /\ runs' = SetHere(From(here, remaining)) /\ done' = done + remaining
    /\ UNCHANGED <<runtime, delta, nodes, i, retain, offset, failed>>

FormatEnd ==
    /\ Formatting /\ retain > offset /\ remaining >= Len(end)
    /\ runs' = With(SetHere(start), i, <<Run(end, TRUE)>>)
    /\ done' = done + Len(end) /\ i' = i + 2 /\ offset' = offset + Len(here)
    /\ UNCHANGED <<runtime, delta, nodes, retain, failed>>

FormatMiddle ==
    /\ Formatting /\ retain > offset /\ remaining < Len(end)
    /\ runs' = With(SetHere(start), i, <<Run(Upto(end, remaining), TRUE),
                                         Run(From(end, remaining), runs[i].bold)>>)
    /\ done' = done + remaining /\ i' = i + 3
    /\ offset' = offset + Len(start) + remaining
    /\ UNCHANGED <<runtime, delta, nodes, retain, failed>>

FormatRun ==
    /\ Formatting /\ retain <= offset /\ remaining >= Len(here)
    /\ runs' = [runs EXCEPT ![i].bold = TRUE]
    /\ done' = done + Len(here) /\ i' = i + 1 /\ offset' = offset + Len(here)
    /\ UNCHANGED <<runtime, delta, nodes, retain, failed>>

(* the part that is not formatted is put at the end of all the runs         *)
FormatFront ==
    /\ Formatting /\ retain <= offset /\ remaining < Len(here)
    /\ runs' = Append([runs EXCEPT ![i] = Run(Upto(here, remaining), TRUE)],
                      Run(From(here, remaining), runs[i].bold))
    /\ done' = op.n
    /\ UNCHANGED <<runtime, delta, nodes, i, retain, offset, failed>>

Apply == \/ Skip \/ Add \/ Drop
         \/ Retain \/ Advance \/ Insert \/ Done \/ OutOfRuns
         \/ DeleteEnd \/ DeleteMiddle \/ DeleteRun \/ DeleteFront
         \/ FormatEnd \/ FormatMiddle \/ FormatRun \/ FormatFront

Next == Edit \/ Apply

Spec == Init /\ [][Next]_vars

-----------------------------------------------------------------------------
(* The runs, laid end to end, are the word: each begins where the one before *)
(* it has ended                                                              *)
CutAt(cut, rs, word) ==
    /\ cut[0] = 0 /\ cut[Len(rs)] = Len(word)
    /\ \A k \in 1..Len(rs) :
           /\ cut[k] = cut[k - 1] + Len(rs[k].insert)
           /\ \A j \in 1..Len(rs[k].insert) : rs[k].insert[j] = word[cut[k - 1] + j]

Spells(rs, word) == \E cut \in [0..Len(rs) -> 0..Len(word)] : CutAt(cut, rs, word)

Characters == [k \in 1..Len(text) |-> text[k].c]

(* Once a delta has been walked the user's text holds the characters of the *)
(* runtime's, in their order: no edit takes more, less or others than it    *)
(* was told to.                                                             *)
TextAgrees == delta = <<>> => Spells(runs, Characters)

(* For as long as texts grow anywhere, lose single characters while they    *)
(* are not formatted, and are formatted from the left to the right, and     *)
(* children come and go one at a time, the walk ends in no exception and    *)
(* the user's text and children are the runtime's.                          *)
CopyAgrees ==
    ~rough => ~failed /\ TextAgrees /\ (delta = <<>> => nodes = children)
=============================================================================
