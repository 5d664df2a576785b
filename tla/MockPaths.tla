------------------------------- MODULE MockPaths -------------------------------
(***************************************************************************)
(* Paths of mocks and requests.                                            *)
(*                                                                         *)
(* A path is what it names, its base, and how its end is spelled: spaces   *)
(* and slashes, which are what normalization takes off.  The base of a     *)
(* wildcard such as /{rest:path} answers every path that ends like it.     *)
(***************************************************************************)
EXTENDS Integers, SequencesExt

CONSTANTS
    AdminPrefix,  \* the base of the administrative namespace
    Root,         \* the base of "/"
    Wildcard      \* the base of a path template that matches every base

Plain(base) == [base |-> base, tail |-> << >>]
Slashed(path) == [path EXCEPT !.tail = Append(@, "slash")]

\* str.rstrip of one character.
Stripped(tail, char) ==
    SubSeq(tail, 1, Max({0} \union {i \in DOMAIN tail : tail[i] # char}))

\* Spaces go first, then slashes, once each: "/a /" becomes "/a ", which is not normal yet.
Normalize(path) == [path EXCEPT !.tail = Stripped(Stripped(@, "space"), "slash")]

\* Every request normalizes its path four times before it is a key.
Key(path) == Normalize(Normalize(Normalize(Normalize(path))))

\* path == prefix or path.startswith(prefix + "/")
Reserved(path) == path.base = AdminPrefix /\ (path.tail = << >> \/ Head(path.tail) = "slash")

\* What the compiled route of a path matches.
Matches(route, url) ==
    \/ route = url
    \/ route.base = Wildcard /\ IsSuffix(route.tail, url.tail)

\* A path as spelled, whatever its base.
IsPath(path) == path = [base |-> path.base, tail |-> path.tail] /\ path.tail \in Seq({"space", "slash"})

\* Of the elements of a sequence those at the positions in `kept`, in their order.
Picked(s, kept) == [n \in 1..Cardinality(kept) |-> s[CHOOSE i \in kept : Cardinality(kept \cap 1..i) = n]]

\* The function f with this value at key, and without any of the keys.
With(f, key, value) == [k \in DOMAIN f \union {key} |-> IF k = key THEN value ELSE f[k]]
Without(f, keys) == [k \in DOMAIN f \ keys |-> f[k]]
===============================================================================
