-------------------------- MODULE BoundedSequence --------------------------
(***************************************************************************)
(* What a ds_vector promises its user: a sequence with room for some       *)
(* number of elements, told by what each call answers.  Nothing here knows *)
(* of cells, of a head, or of wrapping.                                    *)
(***************************************************************************)
EXTENDS Integers, Sequences, SequencesExt

CONSTANTS
    Values,         \* what an element can be
    NULL,           \* no element
    FreesRemoved,   \* is an element that is removed handed to free_cb?
    FreesDestroyed  \* is what a destroyed sequence holds handed to free_cb?

VARIABLES
    seq,    \* the elements
    grows,  \* does a full sequence grow?
    room,   \* how many it has room for; 0: there is no sequence
    reply   \* what the last call returned, and the elements it gave out

seqVars == <<seq, grows, room, reply>>

Reply(status, given) == [status |-> status, given |-> given]
Answer(status, given) == reply' = Reply(status, given)
Refuse(status) == Answer(status, <<>>) /\ UNCHANGED <<seq, grows, room>>

SeqInit == seq = <<>> /\ grows = FALSE /\ room = 0 /\ reply = Reply("none", <<>>)

SeqCreate ==
    /\ room = 0
    /\ \/ room' > 0 /\ grows' \in BOOLEAN /\ Answer("SUCCESS", <<>>) /\ UNCHANGED seq
       \/ Refuse("NO_MEM")

SeqPush(v) ==
    /\ room > 0
    /\ \/ /\ Len(seq) < room \/ grows
          /\ seq' = Append(seq, v)
          /\ IF Len(seq) < room THEN UNCHANGED room ELSE room' > room
          /\ Answer("SUCCESS", <<>>)
          /\ UNCHANGED grows
       \/ Len(seq) = room /\ Refuse(IF grows THEN "NO_MEM" ELSE "NO_RSRC")

SeqPop ==
    /\ room > 0
    /\ IF seq = <<>>
       THEN Refuse("NO_RSRC")
       ELSE /\ seq' = Tail(seq)
            /\ Answer("SUCCESS", <<Head(seq)>>)
            /\ UNCHANGED <<grows, room>>

\* Nothing is promised of the place just behind the last element.
SeqAt(i) ==
    /\ room > 0
    /\ UNCHANGED <<seq, grows, room>>
    /\ CASE i < Len(seq) -> Answer("SUCCESS", <<seq[i + 1]>>)
         [] i > Len(seq) -> Answer("SUCCESS", <<NULL>>)
         [] OTHER        -> reply'.status = "SUCCESS"

SeqRemove(i) ==
    /\ room > 0
    /\ IF i >= Len(seq)
       THEN Refuse("NO_RSRC")
       ELSE /\ seq' = RemoveAt(seq, i + 1)
            /\ Answer("SUCCESS", IF FreesRemoved THEN <<seq[i + 1]>> ELSE <<>>)
            /\ UNCHANGED <<grows, room>>

\* The first element equal to v goes.
SeqRemoveValue(v) ==
    /\ room > 0
    /\ IF ~Contains(seq, v)
       THEN Refuse("NO_RSRC")
       ELSE SeqRemove(SelectInSeq(seq, LAMBDA e : e = v) - 1)

SeqClear ==
    /\ room > 0
    /\ seq' = <<>>
    /\ Answer("SUCCESS", <<>>)
    /\ UNCHANGED <<grows, room>>

SeqExpand ==
    /\ room > 0
    /\ \/ room' > room /\ Answer("SUCCESS", <<>>) /\ UNCHANGED <<seq, grows>>
       \/ Refuse("NO_MEM")
       \/ Refuse("PARAM")

SeqDestroy ==
    /\ room > 0
    /\ seq' = <<>> /\ grows' = FALSE /\ room' = 0
    /\ Answer("SUCCESS", IF FreesDestroyed THEN seq ELSE <<>>)

SeqNext ==
    \/ SeqCreate
    \/ \E v \in Values : SeqPush(v)
    \/ SeqPop
    \/ \E i \in 0 .. Len(seq) + 1 : SeqAt(i)
    \/ \E i \in 0 .. Len(seq) : SeqRemove(i)
    \/ \E v \in Values : SeqRemoveValue(v)
    \/ SeqClear
    \/ SeqExpand
    \/ SeqDestroy

SeqSpec == SeqInit /\ [][SeqNext]_seqVars
=============================================================================
