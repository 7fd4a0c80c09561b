-------------------------------- MODULE Wildcards --------------------------------
(***************************************************************************)
(* The translation of search terms to LIKE patterns, on sequences of        *)
(* characters, against what a term and what a pattern match.                *)
(***************************************************************************)
EXTENDS Naturals, Sequences

CONSTANTS Letters, MaxTerm, MaxText

Special == {"%", "_", "\\"}

VARIABLES term, text

patternVars == <<term, text>>

\* What the replacer makes of a character.
Escaped(c) == IF c \in Special THEN <<"\\", c>> ELSE <<c>>

escapeLikeLiterals(s) ==
    LET done[n \in 0..Len(s)] == IF n = 0 THEN <<>> ELSE done[n - 1] \o Escaped(s[n])
    IN  done[Len(s)]

containsWildcard(s) == \E i \in DOMAIN s : s[i] \in {"*", "?"}

IsAllWildcard(s) == \A i \in DOMAIN s : s[i] \in {"*", "?"}

\* What the characters of a pattern are: an escape, the literal behind it, or plain.
Modes(p) ==
    LET mode[n \in 0..Len(p)] ==
            IF n = 0 THEN "plain"
            ELSE IF mode[n - 1] = "escape" THEN "literal"
            ELSE IF p[n] = "\\" THEN "escape" ELSE "plain"
    IN  mode

classifyPattern(p) ==
    LET Wild(c) == {i \in DOMAIN p : Modes(p)[i] = "plain" /\ p[i] = c}
    IN  IF Wild("%") = {Len(p)} /\ Wild("_") = {} THEN "prefix" ELSE "contains"

\* Mutant: a question mark matches any number of characters.
TranslateQuestionAsStar(s) ==
    LET p == escapeLikeLiterals(s)
        q == [i \in DOMAIN p |-> IF p[i] \in {"*", "?"} THEN "%" ELSE p[i]]
    IN  IF containsWildcard(s) THEN [pattern |-> q, type |-> classifyPattern(q)]
        ELSE [pattern |-> p, type |-> "exact"]

TranslateWildcard(s) ==
    LET p == escapeLikeLiterals(s)
        q == [i \in DOMAIN p |-> IF p[i] = "*" THEN "%" ELSE IF p[i] = "?" THEN "_" ELSE p[i]]
    IN  IF containsWildcard(s) THEN [pattern |-> q, type |-> classifyPattern(q)]
        ELSE [pattern |-> p, type |-> "exact"]

-----------------------------------------------------------------------------
(* What a LIKE pattern and what a term match                               *)

\* How far into s a match may have come with the next character c of a pattern, from
\* the places in From.
Reach(s, mode, c, From) ==
    IF mode = "escape" THEN From
    ELSE IF mode = "plain" /\ c = "%" THEN {m \in 0..Len(s) : \E n \in From : n <= m}
    ELSE {m \in 1..Len(s) : m - 1 \in From /\ ((mode = "plain" /\ c = "_") \/ s[m] = c)}

Like(p, s) ==
    LET reach[n \in 0..Len(p)] ==
            IF n = 0 THEN {0} ELSE Reach(s, Modes(p)[n], p[n], reach[n - 1])
    IN  Len(s) \in reach[Len(p)] /\ Modes(p)[Len(p)] # "escape"

\* The first n characters of a term are laid over s in order, up to s[m]: a letter over
\* itself, ? over one character, * over any number.
LaidOver(t, n, s, m) ==
    \E at \in [1..(n + 1) -> 1..(Len(s) + 1)] :
      /\ at[1] = 1 /\ at[n + 1] = m + 1
      /\ \A i \in 1..n :
           /\ at[i] <= at[i + 1]
           /\ t[i] # "*" => at[i + 1] = at[i] + 1
           /\ t[i] \notin {"*", "?"} => s[at[i]] = t[i]

TermMatches(t, s) == LaidOver(t, Len(t), s, Len(s))

\* s begins with the first n characters of t.
Begins(s, t, n) == n <= Len(s) /\ \A i \in 1..n : s[i] = t[i]

-----------------------------------------------------------------------------
(* Every term against every text                                           *)

PatternInit == term = <<>> /\ text = <<>>

TypeTerm(c) == text = <<>> /\ Len(term) < MaxTerm /\ term' = Append(term, c) /\ UNCHANGED text

StoreText(c) == Len(text) < MaxText /\ text' = Append(text, c) /\ UNCHANGED term

PatternNext ==
    \/ \E c \in Letters \cup Special \cup {"*", "?"} : TypeTerm(c)
    \/ \E c \in Letters \cup Special : StoreText(c)

PatternSpec == PatternInit /\ [][PatternNext]_patternVars

-----------------------------------------------------------------------------
(* Properties                                                              *)

\* The pattern of a term matches exactly what the term matches: %, _ and \ in a term are
\* literals, * and ? the only wildcards. Its class is right about that: a text that an
\* exact pattern matches is the term itself, and what a prefix pattern matches is every
\* continuation of the term without its star. A term that a search skips tells texts
\* apart by their length only.
TranslationMatches ==
    LET r == TranslateWildcard(term)
        front == Len(term) - 1
        literal == \A i \in 1..front : term[i] \notin {"*", "?"}
    IN  /\ Like(r.pattern, text) <=> TermMatches(term, text)
        /\ r.type = "exact" => (Like(r.pattern, text) <=> text = term)
        /\ r.type = "prefix" => (Like(r.pattern, text) <=> Begins(text, term, front))
        /\ r.type = "contains" => ~(term[front + 1] = "*" /\ literal)
        /\ IsAllWildcard(term) => \A c \in Letters :
             Like(r.pattern, text) <=> Like(r.pattern, [i \in DOMAIN text |-> c])

=============================================================================
