---------------------------- MODULE MessageScan ----------------------------
(***************************************************************************)
(* WordLists and Scanner put together: messages judged by what the cache   *)
(* holds (runSecurityChecks, internal/bot/security.go), against what the   *)
(* list in the table means.  The meaning is stated without the scanner:    *)
(* by edits of words, and by the labels of a host.                         *)
(*                                                                         *)
(* One list of WordLists is read both ways: each word is a bad word, with  *)
(* the spelling Spelled, and an allowed domain, with the labels Domain.    *)
(***************************************************************************)
EXTENDS WordLists, Scanner

CONSTANTS
  Spelled,  \* per word: the bad word as it was added
  Domain,   \* per word: the domain, as a sequence of labels
  Symbols,  \* the characters of messages
  MaxText,  \* bound on the length of a message
  Labels,   \* the labels of hosts in links
  MaxLabels \* bound on the labels of one host

(* The characters of labels. *)
HostChars == Letters \cup DOMAIN LowerCase \cup {"-"}
Label == Seq(HostChars) \ {<<>>}

ASSUME ScanAssumption ==
  /\ Spelled \in [Words -> Seq(Symbols \cup HostChars)] /\ MaxText \in Nat
  /\ Domain \in [Words -> Seq(Label) \ {<<>>}]
  /\ Labels \subseteq Label /\ MaxLabels \in Nat

Texts == SeqOf(Symbols, MaxText)

----------------------------------------------------------------------------
(* What is at most n edits away from a string of S: a letter more, a letter *)
(* less, another letter.                                                    *)
Edited1(S) ==
  LET More(s) == {InsertAt(s, i, c) : i \in 1..(Len(s) + 1), c \in Letters}
      Less(s) == {RemoveAt(s, i) : i \in DOMAIN s}
      Other(s) == {ReplaceAt(s, i, c) : i \in DOMAIN s, c \in Letters}
  IN  S \cup UNION {More(s) \cup Less(s) \cup Other(s) : s \in S}

Misspelt(word) ==
  CASE Len(word) < ShortWord -> {word}
    [] Len(word) >= ShortWord /\ Len(word) < LongWord -> Edited1({word})
    [] OTHER -> Edited1(Edited1({word}))

(* What a text says: its words, and what neighbouring letters that stand   *)
(* alone spell.                                                            *)
Says(text) ==
  LET low == ToLower(text)
      letter == {i \in DOMAIN low : low[i] \in Letters}
      alone == {i \in letter : i - 1 \notin letter /\ i + 1 \notin letter}
      Between(i, j) == {k \in letter \ alone : (i < k /\ k < j) \/ (j < k /\ k < i)}
      With(i) == {j \in alone : Between(i, j) = {}}
  IN  {SubSeq(low, r[1], r[2]) : r \in Stretches(letter)} \cup
      {OnlyLetters(SubSeq(low, Least(With(i)), Greatest(With(i)))) : i \in alone}

(* The messages the scanner finds by a list, and those it should find. *)
Found(list) == {t \in Texts : ScanMessage(t, "en", {Spelled[w] : w \in list})}
Bad(list) ==
  LET misspelt == UNION {Misspelt(OnlyLetters(Spelled[w])) : w \in list}
  IN  {t \in Texts : Says(t) \cap misspelt # {}}

(* The ways a link is written. *)
Links ==
  [host : SeqOf(Labels, MaxLabels) \ {<<>>}, scheme : BOOLEAN, www : BOOLEAN,
   rest : {<<>>, <<".">>, <<"/", "a">>, <<":", "1", "/">>, <<"?", ".", "b">>}]

(* The first labels, each with a dot before it; the first dot is none of the *)
(* host's.                                                                  *)
Dots(labels) ==
  LET upTo[i \in 0..Len(labels)] ==
        IF i = 0 THEN <<>> ELSE upTo[i - 1] \o <<".">> \o labels[i]
  IN  upTo
Dotted(labels) == Tail(Dots(labels)[Len(labels)])

Written(link) ==
  (IF link.scheme THEN <<"https://">> ELSE <<>>) \o (IF link.www THEN <<"www.">> ELSE <<>>)
  \o Dotted(link.host) \o link.rest

Lowered(labels) == [i \in DOMAIN labels |-> ToLower(labels[i])]

(* The links the scanner blocks by a list, and those it should block. *)
Blocked(list) ==
  {k \in Links : ContainsBlockedLink({Written(k)}, {Dotted(Domain[w]) : w \in list})}
Foreign(list) ==
  {k \in Links : ~ \E w \in list : IsSuffix(Lowered(Domain[w]), Lowered(k.host))}

(* Per pair of lists: whether a scan by the first judges as the second means. *)
Judgements(Does(_), Means(_)) ==
  LET lists == SUBSET Words
      done == {<<l, Does(l)>> : l \in lists}
      meant == {<<l, Means(l)>> : l \in lists}
  IN  {<<p[1], q[1], p[2] = q[2]>> : p \in done, q \in meant}

FoundIsBad == Judgements(Found, Bad)
BlockedIsForeign == Judgements(Blocked, Foreign)

----------------------------------------------------------------------------
(* A copy that a change has not made old. *)
InForce(i) == ~crossed /\ \A w \in Workers : handler[<<i, w>>] # Dropping

(* While its cached list is in force, an instance finds a message bad if it *)
(* says a word of the table's list, perhaps misspelt as the word's length   *)
(* allows, or spelled out letter by letter; and no other message.           *)
BadWordsAreFound ==
  \A i \in Instances : \A list \in cached[i] :
    InForce(i) => <<list, words, TRUE>> \in FoundIsBad

(* While its cached list is in force, an instance lets a link through if    *)
(* its host is a domain of the table's list or below one, however the link  *)
(* is written; and no other link.                                           *)
LinksAreJudged ==
  \A i \in Instances : \A list \in cached[i] :
    InForce(i) => <<list, words, TRUE>> \in BlockedIsForeign
=============================================================================
