------------------------------- MODULE Cookies -------------------------------
(***************************************************************************)
(* Cookie parsing (browser/cookies.py): the header an operator pastes, or  *)
(* a list of dicts, becomes the list of cookies the browser is given.  A   *)
(* text is a sequence of characters, a host a sequence of labels, a dict a *)
(* function on the keys it has.                                            *)
(***************************************************************************)
EXTENDS Integers, Sequences, FiniteSetsExt

(* The characters that matter *)
Space == "space"
Newline == "newline"
Semicolon == "semicolon"
Equals == "equals"
Separators == {Semicolon, Newline}
Blanks == {Space, Newline}

(* The attributes that are strings *)
Unset == ""
Root == "/"
NoSameSite == "None"

\* The numbers of a set, in their order.
InOrder(I) == [k \in 1..Cardinality(I) |-> CHOOSE i \in I : Cardinality({j \in I : j <= i}) = k]

\* The link has no host: a ValueError, unless there is nothing to give a domain to.
NoHost == <<>>
Raises(given, host) == given # <<>> /\ host = NoHost

Domain(host) ==
    IF Len(host) > 1 /\ Head(host) = "www" THEN Tail(host) ELSE host

Strip(s) ==
    LET solid == {i \in DOMAIN s : s[i] \notin Blanks}
    IN  IF solid = {} THEN <<>> ELSE SubSeq(s, Min(solid), Max(solid))

\* A part ends at a separator or at the end of the text, and begins after the separator
\* before it or where the text does.
Cuts(s) == {i \in DOMAIN s : s[i] \in Separators}
Ends(s) == Cuts(s) \cup {Len(s) + 1}
Begin(s, end) == Max({i \in Cuts(s) : i < end} \cup {0}) + 1
Part(s, end) == Strip(SubSeq(s, Begin(s, end), end - 1))

EqualsIn(part) == {i \in DOMAIN part : part[i] = Equals}
CutAt(part, i) == [name |-> Strip(SubSeq(part, 1, i - 1)), value |-> Strip(SubSeq(part, i + 1, Len(part)))]

\* Mutant: the value ends at the last "=", not at the end.
Pair_LastEquals(part) == CutAt(part, Max(EqualsIn(part)))

\* Cut at the first "=": a value may contain more of them.
Pair(part) == CutAt(part, Min(EqualsIn(part)))

\* A part without "=" or without a name is dropped.
IsPair(part) == EqualsIn(part) # {} /\ Pair(part).name # <<>>

Pairs(raw) ==
    LET ends == InOrder({end \in Ends(raw) : IsPair(Part(raw, end))})
    IN  [k \in DOMAIN ends |-> Pair(Part(raw, ends[k]))]

Cookie(pair, host) ==
    [name |-> pair.name, value |-> pair.value, domain |-> Domain(host), path |-> Root,
     secure |-> TRUE, httpOnly |-> FALSE, sameSite |-> NoSameSite]

\* Unless it raises.
ParseHeader(raw, host) ==
    LET pairs == Pairs(raw)
    IN  [k \in DOMAIN pairs |-> Cookie(pairs[k], host)]

\* dict.get: a missing key has a default, and `or` replaces an empty value too.
Get(dict, key, default) == IF key \in DOMAIN dict THEN dict[key] ELSE default
GetOr(dict, key, empty, default) == IF Get(dict, key, empty) = empty THEN default ELSE dict[key]

\* Mutant: a cookie without the optional keys is dropped.
Usable_AllKeys(dict) == {"name", "value", "path"} \subseteq DOMAIN dict

Usable(dict) == {"name", "value"} \subseteq DOMAIN dict

Normalized(dict, host) ==
    [name     |-> dict["name"],
     value    |-> dict["value"],
     domain   |-> GetOr(dict, "domain", <<>>, Domain(host)),
     path     |-> GetOr(dict, "path", Unset, Root),
     secure   |-> Get(dict, "secure", TRUE),
     httpOnly |-> Get(dict, "httpOnly", FALSE),
     sameSite |-> GetOr(dict, "sameSite", Unset, NoSameSite)]

Normalize(dicts, host) ==
    LET usable == InOrder({k \in DOMAIN dicts : Usable(dicts[k])})
    IN  [k \in DOMAIN usable |-> Normalized(dicts[usable[k]], host)]
=============================================================================
