------------------------------ MODULE Normalize ------------------------------
(***************************************************************************)
(* internal/normalize/normalize.go: paths, queries, Accept-Encoding and    *)
(* the cache key made of them; and splitCacheKey of internal/cache/cache.go *)
(* that takes the key apart again.                                         *)
(*                                                                         *)
(* A text is a sequence of characters <<c, n>>: the character c under n    *)
(* layers of percent-encoding.  <<"/", 0>> is "/", <<"/", 1>> is "%2F",    *)
(* <<"/", 2>> is "%252F"; <<"%", 0>> is a "%" that begins no escape.  In a *)
(* query <<"p", i>> is a parameter, i its place in alphabetical order.     *)
(***************************************************************************)
EXTENDS Integers, Sequences, FiniteSets, SequencesExt

CONSTANT Alphabet   \* the characters, parameters, encodings, methods and hosts

ASSUME AlphabetAssumption ==
    {"/", ".", "|", "%", "p", "e", "GET", "host"} \subseteq Alphabet

Slash   == <<"/", 0>>
Dot     == <<".", 0>>
Bar     == <<"|", 0>>
Percent == <<"%", 0>>

\* A character, and a text.
Char == Alphabet \X Nat
Text == Seq(Char)

(***************************************************************************)
(* The parts between the separators, also the empty ones.  A part lies     *)
(* between two neighbouring cuts, which are the separators and the ends of *)
(* the text; Cut(j) is the one with j others before it.                    *)
(***************************************************************************)
Split(text, sep) ==
    LET cuts == {0, Len(text) + 1} \cup {i \in DOMAIN text : text[i] = sep}
        Cut(j) == CHOOSE c \in cuts : Cardinality({b \in cuts : b < c}) = j
    IN [j \in 1 .. Cardinality(cuts) - 1 |-> SubSeq(text, Cut(j - 1) + 1, Cut(j) - 1)]

\* url.PathUnescape: one layer less, or an error.
Unescapable(text) == ~Contains(text, Percent)
Unescape(text) == [i \in DOMAIN text |-> <<text[i][1], IF text[i][2] = 0 THEN 0 ELSE text[i][2] - 1>>]

\* The path without its last segment.
Parent(p) ==
    IF p = <<>> THEN p ELSE SubSeq(p, 1, Max({i \in DOMAIN p : p[i] = Slash}) - 1)

\* One more segment: an empty one and "." add nothing, ".." goes back.
Keep(out, segment) ==
    CASE segment \in {<<>>, <<Dot>>} -> out
      [] segment = <<Dot, Dot>>      -> Parent(out)
      [] OTHER                       -> out \o <<Slash>> \o segment

\* path.Clean of a rooted path.
Clean(p) ==
    LET segments == Split(p, Slash)
        out[n \in 0 .. Len(segments)] ==
            IF n = 0 THEN <<>> ELSE Keep(out[n-1], segments[n])
    IN IF out[Len(segments)] = <<>> THEN <<Slash>> ELSE out[Len(segments)]

\* Mutant of Path: dot segments are resolved before the escapes are.
PathCleanedFirst(p) ==
    LET cleaned == Clean(p)
    IN IF Unescapable(cleaned) THEN Unescape(cleaned) ELSE cleaned

(***************************************************************************)
(* One layer of escapes is removed if that succeeds, dot segments and      *)
(* double slashes are resolved.  Whether to keep a trailing slash is       *)
(* decided on the path as it was before.                                   *)
(***************************************************************************)
Path(p) ==
    LET cleaned == Clean(IF Unescapable(p) THEN Unescape(p) ELSE p)
    IN IF p # <<>> /\ Last(p) = Slash /\ Last(cleaned) # Slash
       THEN Append(cleaned, Slash) ELSE cleaned

(***************************************************************************)
(* sort.Strings: the place of an item is its place in alphabetical order,  *)
(* and its rank the number of the items up to it.                          *)
(***************************************************************************)
Place(c) == IF c[1] \in {"p", "e"} THEN c[2] ELSE 0

Rank(s, i) ==
    Cardinality({j \in DOMAIN s : \/ Place(s[j]) < Place(s[i])
                                  \/ Place(s[j]) = Place(s[i]) /\ j <= i})

Sorted(s) == [n \in DOMAIN s |-> s[CHOOSE i \in DOMAIN s : Rank(s, i) = n]]

\* url.QueryEscape.
Escape(q) == [i \in DOMAIN q |-> IF q[i] = Bar THEN <<"|", 1>> ELSE q[i]]

\* Mutant of Query: the parameters stay in the order of the client.
QueryUnsorted(q) == IF Unescapable(q) THEN Escape(q) ELSE q

\* Sorted and escaped, so without a bar; what does not parse is left as it is.
Query(q) == IF Unescapable(q) THEN Sorted(Escape(q)) ELSE q

(***************************************************************************)
(* The header is a sequence of [enc, q]: an encoding, by its place in      *)
(* alphabetical order, and its weight.  The weight is dropped.             *)
(***************************************************************************)
Identity == 9

AcceptEncoding(ae) ==
    IF ae = <<>> THEN << <<"e", Identity>> >>
    ELSE Sorted([i \in DOMAIN ae |-> <<"e", ae[i].enc>>])

\* Mutant of CacheKey: the query is left out.
CacheKeyWithoutQuery(p, q, ae) ==
    << <<"GET", 0>>, Bar, <<"host", 0>>, Bar >> \o Path(p) \o <<Bar, Bar>> \o AcceptEncoding(ae)

\* Mutant of CacheKey: so is Accept-Encoding.
CacheKeyWithoutEncoding(p, q, ae) ==
    << <<"GET", 0>>, Bar, <<"host", 0>>, Bar >> \o Path(p) \o <<Bar>> \o Query(q) \o <<Bar>>

\* HEAD counts as GET; there is one host.
CacheKey(p, q, ae) ==
    << <<"GET", 0>>, Bar, <<"host", 0>>, Bar >>
        \o Path(p) \o <<Bar>> \o Query(q) \o <<Bar>> \o AcceptEncoding(ae)

splitCacheKey(key) == Split(key, Bar)
=============================================================================
