------------------------------- MODULE Paths -------------------------------
(***************************************************************************)
(* Paths as texts, sequences of characters one of which is the slash, and  *)
(* the questions the routers ask of them: the trie's by segment, the       *)
(* inline routers' by text.                                                *)
(***************************************************************************)
EXTENDS Integers, Sequences, FiniteSets, SequencesExt

CONSTANT Chars  \* the characters texts are made of

Slash == "/"

ASSUME CharsAssumption == Slash \in Chars

(* What is read of a text so far: the segments that ended, and the characters *)
(* of the one that has not.                                                  *)
Ended(read) == IF read.cur = << >> THEN read.segs ELSE Append(read.segs, read.cur)

Read(read, ch) ==
  IF ch = Slash THEN [segs |-> Ended(read), cur |-> << >>]
  ELSE [segs |-> read.segs, cur |-> Append(read.cur, ch)]

Reading(text) ==
  LET read[n \in 0 .. Len(text)] ==
        IF n = 0 THEN [segs |-> << >>, cur |-> << >>] ELSE Read(read[n - 1], text[n])
  IN read

(* split_segments_: what is between slashes, nothings left out. *)
Split(text) == Ended(Reading(text)[Len(text)])

(* trim_matches('/') *)
Trim(text) ==
  LET inner == {i \in 1 .. Len(text) : text[i] # Slash}
  IN IF inner = {} THEN << >> ELSE SubSeq(text, Min(inner), Max(inner))

After(text, n) == SubSeq(text, n + 1, Len(text))

(* concat_location, for the client. *)
ConcatLocation(interface, service) ==
  LET i == Trim(interface)
      s == Trim(service)
  IN <<Slash>> \o i \o (IF i = << >> THEN << >> ELSE <<Slash>>) \o s

PrefixLenOfText(prefix, path) ==
  LET p == Trim(prefix)
      q == Trim(path)
  IN IF IsPrefix(p, q) THEN {Len(p)} ELSE {}

PathPrefixLen(prefix, path) ==
  LET p == Trim(prefix)
      q == Trim(path)
      atEnd == p = << >> \/ Len(p) = Len(q) \/ q[Len(p) + 1] = Slash
  IN IF IsPrefix(p, q) /\ atEnd THEN {Len(p)} ELSE {}

StripInterfacePrefix(interface, location) ==
  LET i == Trim(interface)
      l == Trim(location)
  IN IF i = << >> THEN {l}
     ELSE IF ~IsPrefix(i, l) THEN {}
     ELSE IF Len(i) = Len(l) THEN {<< >>}
     ELSE IF l[Len(i) + 1] = Slash THEN {After(l, Len(i) + 1)} ELSE {}

(* No empty segment inside the text.                                        *)
Canonical(text) == \A n \in 1 .. Len(Trim(text)) - 1 : SubSeq(Trim(text), n, n + 1) # <<Slash, Slash>>
=============================================================================
