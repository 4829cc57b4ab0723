---------------------------- MODULE MCHttpServer ----------------------------
(***************************************************************************)
(* The HTTP server with three routes, among them one without a handler and *)
(* one that fails after it has extracted a parameter, and requests that    *)
(* differ in what ends them and in who gets them.                          *)
(***************************************************************************)
EXTENDS HttpServer

\* "/(a|b)/{name:..}", a method, a query, "/a{file_path}", "{x}/{y}".
Named  == MatcherOf(1, "path", {"/a/n", "/b/n"}, <<Text(1), Braces("name", 0)>>)
Posts  == MatcherOf(2, "method", {"POST"}, <<Text(0)>>)
Asks   == MatcherOf(3, "query", {"q"}, <<Text(0)>>)
Prefix == MatcherOf(4, "path", {"/a/n"}, <<Text(0), Braces("file_path", 0)>>)
Pair   == MatcherOf(5, "path", {"/b/n"}, <<Braces("x", 0), Text(0), Braces("y", 0)>>)

MCRoutes == << [matchers |-> <<Named, Posts>>, handler |-> "page"],
               [matchers |-> <<Prefix>>, handler |-> "files"],
               [matchers |-> <<Pair, Asks>>, handler |-> "none"] >>

MCFiles == { [kind |-> "file", size |-> 2, readable |-> TRUE],
             [kind |-> "file", size |-> 2, readable |-> FALSE],
             [kind |-> "directory", size |-> 0, readable |-> TRUE],
             [kind |-> "none", size |-> 0, readable |-> TRUE] }

Get  == [good |-> TRUE, version |-> 11, connection |-> "", length |-> -1,
         method |-> "GET", path |-> "/a/n", header |-> "", query |-> ""]
Post == [Get EXCEPT !.method = "POST", !.length = 2]

MCTemplates ==
    { Get, Post,
      [Post EXCEPT !.length = 0, !.path = "/b/n", !.query = "q"],
      [Get EXCEPT !.path = "/b/n"],                             \* to the default handler
      [Get EXCEPT !.connection = "close"],
      [Get EXCEPT !.version = 10, !.connection = "keep-alive"],
      [Get EXCEPT !.good = FALSE] }
=============================================================================
