--------------------------- MODULE MCNotesClients ---------------------------
(***************************************************************************)
(* The notes of user 1 and one of user 2; the MCP server and the command   *)
(* line, each with a token of its own; pages of at most two notes.         *)
(***************************************************************************)
EXTENDS NotesClients

CONSTANTS mcp, cli, n1, n2, n3, n4

MCRawTags == {"Go", "go", "db", "go,db", " "}
MCNorm == [t \in MCRawTags |->
             CASE t = "Go" -> "go" [] t = " " -> "" [] OTHER -> t]
MCParts == [t \in MCRawTags |->
              CASE t = "go,db" -> {"go", "db"} [] t = " " -> {} [] OTHER -> {t}]
MCLowerTrim == [t \in Statuses \cup {"", " Final", "done"} |->
                  IF t = " Final" THEN "final" ELSE t]

JWT(user) == [pat |-> FALSE, user |-> user, admin |-> FALSE, scopes |-> {}]
Pat(user, scopes) == [JWT(user) EXCEPT !.pat = TRUE, !.scopes = scopes]
MCTokens ==
  {JWT(0), JWT(1), JWT(2), [JWT(1) EXCEPT !.admin = TRUE], Pat(1, {"notes:read"}),
   Pat(1, {"notes:write"}), Pat(1, {"notes:read", "notes:write"})}
None == [JWT(0) EXCEPT !.scopes = {"notes:admin"}]
MCDevToken == JWT(0)

WithMCP(t) == [program |-> "mcp", flag |-> None, token |-> t, dev |-> None]
WithCLI(f, t, d) == [program |-> "cli", flag |-> f, token |-> t, dev |-> d]
MCSettings == [c \in {mcp, cli} |->
  IF c = mcp THEN {WithMCP(t) : t \in {JWT(1), Pat(1, {"notes:write"}),
                                       Pat(1, {"notes:read", "notes:write"})}}
  ELSE {WithCLI(None, JWT(2), JWT(1)), WithCLI(None, None, JWT(0)),
        WithCLI(Pat(1, {"notes:read"}), JWT(1), None), WithCLI(None, None, None),
        WithCLI(None, [JWT(1) EXCEPT !.admin = TRUE], None)}]

Row1(owner, body, status, t) ==
  [owner |-> owner, body |-> body, status |-> status, created |-> 0, updated |-> t]
OwnNotes ==
  [n \in {n1, n2, n3, n4} |->
     CASE n = n1 -> [row |-> Row1(1, "text", "final", 1), tags |-> {"go"}]
       [] n = n2 -> [row |-> Row1(2, "text", "draft", 2), tags |-> {"db"}]
       [] n = n3 -> [row |-> Row1(1, "text", "active", 3), tags |-> {"go,db"}]
       [] n = n4 -> NoNote]
Stores == {OwnNotes}

Ask(op) == [NoInput EXCEPT !.op = op, !.note = n1, !.titled = TRUE]
Pages(op, limits) == {[Ask(op) EXCEPT !.limit = l] : l \in limits}
Tagged1(op, tags) == [Ask(op) EXCEPT !.tags = tags, !.named = {"tags"}]
Texts(op, status) ==
  [Ask(op) EXCEPT !.body = "text", !.status = status, !.named = {"body", "status"}]
MCInputs == [c \in {mcp, cli} |->
  IF c = mcp
    THEN Pages("list", {-1, 2, 9}) \cup Pages("search", {-1, 3}) \cup
         {Tagged1("search", {"Go"}), Ask("get"), Tagged1("add", {"Go", "db"}),
          Texts("create", "done"), Ask("update"), Ask("delete")}
    ELSE Pages("list", {0}) \cup Pages("search", {2}) \cup
         {Ask("get"), Tagged1("add", {" "}), Tagged1("update", {"db", " "}),
          Texts("create", "done"), Texts("update", " Final"), Ask("add")}]
=============================================================================
