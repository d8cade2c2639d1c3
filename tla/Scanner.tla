------------------------------ MODULE Scanner ------------------------------
(***************************************************************************)
(* The scanner of messages (internal/security/scanner.go): which texts a   *)
(* list of bad words finds, and which links a list of allowed domains lets *)
(* through.  Pure functions of their arguments.                            *)
(*                                                                         *)
(* A text is a sequence of characters.  Of the characters only this counts *)
(* here: which are letters (or digits), which become another one in lower  *)
(* case, and which have a part in a link.  "https://" and "www." are one   *)
(* character each.  Which word is reported is left out, and so is the      *)
(* regular expression that finds the links of a text.                      *)
(***************************************************************************)
EXTENDS SequencesExt

CONSTANTS
  Letters,    \* letters and digits in lower case
  LowerCase,  \* the capitals' lower case, a function
  ShortWord,  \* a bad word this long may be misspelt once (5 letters)
  LongWord    \* one this long may be misspelt twice (9 letters)

(* What has a part in a link, and is no letter. *)
Marks == {" ", ".", ":", "?", "/", "#", "https://", "www."}

ASSUME ScannerAssumption ==
  /\ LowerCase \in [DOMAIN LowerCase -> Letters]
  /\ Letters \cap DOMAIN LowerCase = {} /\ Marks \cap (Letters \cup DOMAIN LowerCase) = {}
  /\ ShortWord \in Nat \ {0} /\ LongWord \in Nat /\ ShortWord <= LongWord

ToLower(s) ==
  [i \in DOMAIN s |-> IF s[i] \in DOMAIN LowerCase THEN LowerCase[s[i]] ELSE s[i]]

(* The letters among the first characters. *)
Lettered(s) ==
  LET upTo[i \in 0..Len(s)] ==
        CASE i = 0 -> <<>>
          [] i > 0 /\ s[i] \in Letters -> Append(upTo[i - 1], s[i])
          [] OTHER -> upTo[i - 1]
  IN  upTo

OnlyLetters(s) == Lettered(ToLower(s))[Len(s)]

Least(S) == CHOOSE i \in S : \A j \in S : i <= j
Greatest(S) == CHOOSE i \in S : \A j \in S : i >= j

(* A row of the table of edit distances, after the i-th letter, from left   *)
(* to right.                                                               *)
NextRow(prev, b, letter, i) ==
  LET curr[j \in 0..Len(b)] ==
        IF j = 0 THEN i
        ELSE LET cost == IF letter = b[j] THEN 0 ELSE 1
             IN  Least({curr[j - 1] + 1, prev[j] + 1, prev[j - 1] + cost})
  IN  curr

Rows(a, b) ==
  LET rows[i \in 0..Len(a)] ==
        IF i = 0 THEN [j \in 0..Len(b) |-> j] ELSE NextRow(rows[i - 1], b, a[i], i)
  IN  rows

levenshtein(a, b) == Rows(a, b)[Len(a)][Len(b)]

maxEditDistance_Bug(runes) ==  \* one letter more is asked for
  CASE runes <= ShortWord -> 0
    [] runes > ShortWord /\ runes < LongWord -> 1
    [] OTHER -> 2

maxEditDistance(runes) ==
  CASE runes < ShortWord -> 0
    [] runes >= ShortWord /\ runes < LongWord -> 1
    [] OTHER -> 2

(* The words of a text, cut at everything that is not a letter: those that *)
(* have ended, and the one that has not.                                   *)
Cut(words, c) ==
  CASE c \in Letters -> [words EXCEPT !.cur = Append(@, c)]
    [] c \notin Letters /\ words.cur # <<>> -> [raw |-> Append(words.raw, words.cur), cur |-> <<>>]
    [] OTHER -> words

Cutting(low) ==
  LET upTo[i \in 0..Len(low)] ==
        IF i = 0 THEN [raw |-> <<>>, cur |-> <<>>] ELSE Cut(upTo[i - 1], low[i])
  IN  upTo

RawTokens(text) ==
  LET end == Cutting(ToLower(text))[Len(text)]
  IN  IF end.cur = <<>> THEN end.raw ELSE Append(end.raw, end.cur)

(* The longest stretches of S, a set of numbers, as pairs of their ends. *)
Stretches(S) ==
  {r \in S \X S : /\ r[1]..r[2] \subseteq S
                  /\ r[1] <= r[2] /\ r[1] - 1 \notin S /\ r[2] + 1 \notin S}

(* The words, and what letters that stand alone spell together: "s.p.a.m". *)
tokeniseWestern(text) ==
  LET raw == RawTokens(text)
      single == {i \in DOMAIN raw : Len(raw[i]) = 1}
      Joined(i, j) == [n \in 1..(j - i + 1) |-> raw[i + n - 1][1]]
  IN  Range(raw) \cup {Joined(r[1], r[2]) : r \in {s \in Stretches(single) : s[1] < s[2]}}

(* A token is a bad word, or near one.  The lengths are compared first. *)
MatchesEnglish(text, badWords) ==
  \E token \in tokeniseWestern(text) :
    \E bw \in {OnlyLetters(raw) : raw \in badWords} \ {<<>>} :
      \/ token = bw
      \/ /\ Len(token) - Len(bw) <= maxEditDistance(Len(bw))
         /\ Len(bw) - Len(token) <= maxEditDistance(Len(bw))
         /\ levenshtein(token, bw) <= maxEditDistance(Len(bw))

(* A bad word stands anywhere in the text, as it is. *)
MatchesKhmer(text, badWords) ==
  \E bw \in badWords \ {<<>>} :
    \E i \in 0..(Len(text) - Len(bw)) : SubSeq(text, i + 1, i + Len(bw)) = bw

ScanMessage(text, language, badWords) ==
  IF language = "km" THEN MatchesKhmer(text, badWords) ELSE MatchesEnglish(text, badWords)

----------------------------------------------------------------------------
(* s without the characters of S at its ends, as strings.Trim. *)
Trim(s, S) ==
  LET keep == {i \in DOMAIN s : s[i] \notin S}
  IN  IF keep = {} THEN <<>> ELSE SubSeq(s, Least(keep), Greatest(keep))

TrimPrefix(s, c) == IF s # <<>> /\ Head(s) = c THEN Tail(s) ELSE s
TrimSuffix(s, c) == IF s # <<>> /\ Last(s) = c THEN Front(s) ELSE s

(* s up to the first character of S. *)
UpTo(s, S) ==
  LET stops == {i \in DOMAIN s : s[i] \in S}
  IN  IF stops = {} THEN s ELSE SubSeq(s, 1, Least(stops) - 1)

(* The host of a link that was found, with or without its scheme. *)
normalizeHost(candidate) ==
  LET raw == Trim(candidate, {" ", ".", ":", "?"})
      host == UpTo(TrimPrefix(raw, "https://"), {"/", "?", "#", ":"})
  IN  TrimPrefix(TrimSuffix(ToLower(host), "."), "www.")

normalizeDomain(domain) ==
  LET bare == TrimPrefix(TrimPrefix(ToLower(Trim(domain, {" "})), "https://"), "www.")
  IN  TrimSuffix(UpTo(bare, {"/", "?", "#", ":"}), ".")

IsAllowedDomainSuffix_Bug(host, whitelist) ==  \* without the dot before it
  LET h == normalizeDomain(host)
  IN  /\ h # <<>>
      /\ \E allowed \in {normalizeDomain(d) : d \in whitelist} \ {<<>>} : IsSuffix(allowed, h)

(* The domain itself or one below it. *)
IsAllowedDomain(host, whitelist) ==
  LET h == normalizeDomain(host)
  IN  /\ h # <<>>
      /\ \E allowed \in {normalizeDomain(d) : d \in whitelist} \ {<<>>} :
           h = allowed \/ IsSuffix(<<".">> \o allowed, h)

(* A message is blocked for one link that is not allowed. *)
ContainsBlockedLink(candidates, whitelist) ==
  \E c \in candidates :
    normalizeHost(c) # <<>> /\ ~IsAllowedDomain(normalizeHost(c), whitelist)
=============================================================================
