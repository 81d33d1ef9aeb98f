----------------------------- MODULE Frontends ------------------------------
(***************************************************************************)
(* One document behind two programs: a server of one kind, "apimount       *)
(* serve", and one-shot commands, "apimount call", beside it.  "Each       *)
(* surface exposes the same API tree backed by the same execution core."   *)
(* (cmd/apimount/serve.go:21): what the surfaces make of one document is   *)
(* compared here.                                                          *)
(***************************************************************************)
EXTENDS Lookup, Mount, Tools

vars == <<document, searchVars, treeVars, rev, file, toolVars>>

\* Types of the three parts, and the tree hangs together (builder.go:111).
TypeOK == LookupTypeOK /\ MountTypeOK /\ ToolsTypeOK

Init == LookupInit /\ MountInit /\ ToolsInit

\* The server of a tree of files, or the tree command.
Mounted == frontend # "mcp" /\ MountNext /\ UNCHANGED <<searchVars, toolVars>>

\* The server of tools.
Tooled == frontend = "mcp" /\ ToolsNext /\ UNCHANGED <<searchVars, treeVars, rev, file>>

\* The command beside it.
Command == LookupNext /\ UNCHANGED <<treeVars, rev, file, toolVars>>

Next == Mounted \/ Tooled \/ Command

Spec == Init /\ [][Next]_vars

-----------------------------------------------------------------------------
(* Properties *)

\* The file of a path without templates and "call GET" with that path reach
\* the same operation at the same URL, although the tree keeps the first that
\* claims a name (builder.go:105) and the command searches all (find.go:59).
MountAgreesWithCall ==
  (/\ stage = "serving" /\ grouping = "path"
   /\ search = "sent" /\ asked.method = "GET" /\ params = << >>) =>
    LET p == Append(Split[asked.path], ".data")
    IN  /\ Resolves(p)
        /\ tree[p] = best
        /\ Resolve(document[tree[p]], << >>) = sent

\* A tool and "call" send one URL for one operation and the same values: values
\* that print as they were typed (mcp.go:121).  Two things set a tool apart: it
\* serves the last operation of its name (AddTool replaces; parser.go:316 may
\* generate an id twice), and a template that only the whole path declares goes
\* out unbound.
Undeclared(o) == TemplatesOf(o) \ o.declares
ToolAgreesWithCall ==
  (/\ search = "sent"
   /\ call.tool = document[best].id
   /\ \A j \in (best + 1)..Len(document) : document[j].id # document[best].id
   /\ \A t \in DOMAIN params \cap document[best].declares :
        t \in DOMAIN call.arguments /\ Printed[call.arguments[t]] = params[t]) =>
    LET o == document[best]
    IN  call.url =
          [j \in 1..Len(o.path) |->
             IF o.path[j] \in Undeclared(o)
               THEN [segment |-> o.path[j], escaped |-> FALSE] ELSE sent[j]]
=============================================================================
