------------------------------- MODULE Router -------------------------------
(***************************************************************************)
(* The routing of src/src/http/router.cpp, route.cpp and matcher.cpp:      *)
(* routes are tried in the order they were made, a route is taken when all *)
(* its matchers accept the request, and the parameters the matchers of the *)
(* path extract go to the handler in a map.                                *)
(*                                                                         *)
(* A pattern is a sequence of pieces: plain text, or {name} or             *)
(* {name:condition}; what is outside or inside of braces may have groups   *)
(* of its own.  A matcher is what Matcher::Init makes of a pattern: the    *)
(* number of groups, and the names with the number of the group each of    *)
(* them stands for.  Its expression is the set of texts it accepts.        *)
(***************************************************************************)
EXTENDS Naturals, Sequences, SequencesExt

CONSTANT Routes  \* a sequence of [matchers, handler]

Keys == {"path", "method", "header", "query"}

ASSUME RoutesAssumption ==
    \A r \in ToSet(Routes) :
        /\ r.handler \in {"none", "page", "files"}
        /\ \A m \in ToSet(r.matchers) :
              /\ m.key \in Keys
              /\ m.groups \in Nat
              /\ Len(m.names) = Len(m.groupOf)
              /\ ToSet(m.groupOf) \subseteq 1..m.groups

\* The default handler, also what stands for no route.
NoRoute == 0

NoParams == <<>>

\* A piece of a pattern: `groups' are those in the text, or in the condition.
Text(groups) == [braces |-> FALSE, name |-> "", groups |-> groups]
Braces(name, groups) == [braces |-> TRUE, name |-> name, groups |-> groups]

\* Matcher::Init: braces become a group around their condition.
MatcherOf(id, key, accepts, pattern) ==
    LET Add(m, piece) ==
            IF piece.braces
            THEN [m EXCEPT !.names = Append(@, piece.name),
                           !.groupOf = Append(@, m.groups + 1),
                           !.groups = @ + 1 + piece.groups]
            ELSE [m EXCEPT !.groups = @ + piece.groups]
    IN  FoldLeft(Add, [id |-> id, key |-> key, accepts |-> accepts,
                       groups |-> 0, names |-> <<>>, groupOf |-> <<>>], pattern)

\* What group g of matcher m holds of the text it accepted.
Group(m, g, text) == <<m.id, g, text>>

\* The group that is paired with name i: both are counted from the end.
PairedGroup(m, i) == m.groups - (Len(m.names) - i)

\* Only the matchers of a path use what their groups hold.
Inserts(m) == m.key = "path"

\* Matcher::Match: the pairs go into match_map by insert, which keeps a pair that is
\* there.
Inserted(match_map, m, text) ==
    IF ~Inserts(m) THEN match_map
    ELSE match_map @@ [name \in ToSet(m.names) |->
                          LET i == SelectLastInSeq(m.names, LAMBDA x : x = name)
                          IN  Group(m, PairedGroup(m, i), text)]

\* Mutant: the parameters of a route that failed are kept.
KeptAfterFailure(match_map) == match_map

\* match_map->clear()
Cleared(match_map) == NoParams

\* Route::Match on what the routes before it have left in match_map.
RouteMatch(r, request, match_map) ==
    LET Try(s, m) == IF ~s.matches THEN s
                     ELSE IF request[m.key] \in m.accepts
                     THEN [s EXCEPT !.match_map = Inserted(s.match_map, m, request[m.key])]
                     ELSE [matches |-> FALSE, match_map |-> Cleared(s.match_map)]
    IN  FoldLeft(Try, [matches |-> TRUE, match_map |-> match_map], r.matchers)

\* Router::Match: the route that is taken and match_map afterwards.
RouterMatch(request) ==
    LET Try(s, i) == IF s.route # NoRoute THEN s
                     ELSE LET t == RouteMatch(Routes[i], request, s.match_map)
                          IN  [route |-> IF t.matches THEN i ELSE NoRoute,
                               match_map |-> t.match_map]
    IN  FoldLeft(Try, [route |-> NoRoute, match_map |-> NoParams], [i \in DOMAIN Routes |-> i])

-----------------------------------------------------------------------------
(* What routing promises, stated without the order of its steps.           *)

Accepts(r, request) == \A m \in ToSet(r.matchers) : request[m.key] \in m.accepts

\* The first route that accepts the request.
FirstRoute(request) ==
    SelectInSeq(Routes, LAMBDA r : Accepts(r, request))

PathMatchers(r) == {m \in ToSet(r.matchers) : m.key = "path"}

\* Each name of the path matchers of the route with the text of its own group.
Params(route, request) ==
    IF route = NoRoute THEN NoParams
    ELSE [name \in UNION {ToSet(m.names) : m \in PathMatchers(Routes[route])} |->
             LET m == CHOOSE m \in PathMatchers(Routes[route]) : name \in ToSet(m.names)
                 i == SelectInSeq(m.names, LAMBDA x : x = name)
             IN  Group(m, m.groupOf[i], request.path)]
=============================================================================
