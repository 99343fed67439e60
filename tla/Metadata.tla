------------------------------- MODULE Metadata -------------------------------
(***************************************************************************)
(* What the renderers take from an entry of the metadata, of               *)
(* src/format/util.c, html.c and gemini.c.                                 *)
(***************************************************************************)
EXTENDS Integers, Sequences

LOCAL INSTANCE SequencesExt
LOCAL INSTANCE TLC

\* lowdown_get_meta() puts the texts of the node together again.
Meta_of(key, texts) == [key |-> key, value |-> FlattenSeq(texts)]

\* strtonum() of a number of one digit with or without a sign.
Number(v) ==
  LET digit == ("0" :> 0) @@ ("1" :> 1) @@ ("2" :> 2) @@ ("3" :> 3) @@ ("9" :> 9)
  IN  IF Len(v) = 1 /\ v[1] \in DOMAIN digit THEN <<digit[v[1]]>>
      ELSE IF Len(v) = 2 /\ v[1] = "-" /\ v[2] \in DOMAIN digit THEN <<-digit[v[2]]>>
      ELSE <<>>

\* What is added to the level of a header after the entry.
Header_offset(m, offs) ==
  LET num == Number(m.value)
  IN  CASE m.key = <<"shiftheadinglevelby">> /\ num # <<>> -> num[1] + 1
        [] m.key = <<"baseheaderlevel">> /\ num # <<>> /\ num[1] > 0 -> num[1]
        [] OTHER -> offs
===============================================================================
