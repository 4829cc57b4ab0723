---------------------------- MODULE HttpResponse ----------------------------
(***************************************************************************)
(* A response as a handler fills it (src/src/http/httpresponse.h and       *)
(* httpresponse.cpp), and the handlers of the repository: the one for      *)
(* files, the default one, and the page of src/example/http.cpp.           *)
(*                                                                         *)
(* What counts is what the client goes by: the status, whether the header  *)
(* says that the connection will be closed, the length it announces, and   *)
(* how much body follows.  The header is written from what is set at that  *)
(* moment; the server looks at the response again afterwards.              *)
(***************************************************************************)
EXTENDS Naturals

CONSTANT PageSize  \* the length of the pages that are not files

ASSUME PageSizeAssumption == PageSize \in Nat

NoHeader == [status |-> 0, close |-> FALSE, length |-> 0]

HttpResponseOf(close) == [close_connection_ |-> close, status_code_ |-> 0, length |-> 0,
                          header |-> NoHeader, body |-> 0]

SetCloseConnection(r) == [r EXCEPT !.close_connection_ = TRUE]

Found(r, length) == [r EXCEPT !.status_code_ = 200, !.length = length]
NotFound(r, length) == [r EXCEPT !.status_code_ = 404, !.length = length]

AppendHeaderToBuffer(r) ==
    [r EXCEPT !.header = [status |-> r.status_code_, close  |-> r.close_connection_,
                          length |-> r.length]]

AppendBodyToBuffer(r, size) == [r EXCEPT !.body = @ + size]

-----------------------------------------------------------------------------

OnHttpCallback(r) ==
    AppendBodyToBuffer(AppendHeaderToBuffer(Found(r, PageSize)), PageSize)

\* Mutant: the connection is marked after the header is written.
PageNotFoundMarkedLate(r) ==
    AppendBodyToBuffer(SetCloseConnection(AppendHeaderToBuffer(NotFound(r, PageSize))), PageSize)

PageNotFoundHandler(r) ==
    AppendBodyToBuffer(AppendHeaderToBuffer(SetCloseConnection(NotFound(r, PageSize))), PageSize)

\* File::ReadToBuffer: of a file that cannot be opened or mapped, one of size zero
\* among them, nothing is read.
ReadToBuffer(r, file) == AppendBodyToBuffer(r, IF file.readable THEN file.size ELSE 0)

\* FileHandler::Handler: the size is looked up when the header is written, and what
\* is there is read afterwards; a directory is listed on a page.
FileHandler(r, file) ==
    CASE file.kind = "file" -> ReadToBuffer(AppendHeaderToBuffer(Found(r, file.size)), file)
      [] file.kind = "directory" -> OnHttpCallback(r)
      [] file.kind = "none" -> PageNotFoundHandler(r)
=============================================================================
