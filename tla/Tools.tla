------------------------------- MODULE Tools --------------------------------
(***************************************************************************)
(* "apimount serve mcp", internal/frontend/mcp/mcp.go: Serve registers one *)
(* tool an operation and then answers calls, which bind the declared       *)
(* parameters and go to the executor.                                      *)
(***************************************************************************)
EXTENDS Operations

CONSTANTS
  Arguments,  \* arguments a client may send: functions from names to JSON values
  Printed     \* Printed[v]: the text fmt.Sprintf("%v", v) makes of a JSON value

ASSUME ToolsAssumption ==
  \A args \in Arguments : \A t \in DOMAIN args : args[t] \in DOMAIN Printed

VARIABLES
  registered,  \* number of operations registered
  tools,       \* name of a tool -> index of the operation of its handler
  call         \* the last call: the tool, its arguments, and what was sent

toolVars == <<registered, tools, call>>

NoCall == [tool |-> "", arguments |-> << >>, op |-> 0, url |-> << >>]

ToolsInit ==
  /\ document \in Documents
  /\ registered = 0
  /\ tools = << >>
  /\ call = NoCall

\* Mutant of Register: every handler sees the loop's variable.
RegisterShared ==
  /\ registered < Len(document)
  /\ registered' = registered + 1
  /\ tools' = [n \in DOMAIN tools \cup {document[registered + 1].id} |-> registered + 1]
  /\ UNCHANGED <<document, call>>

\* AddTool replaces a tool of the same name.
Register ==
  /\ registered < Len(document)
  /\ registered' = registered + 1
  /\ LET id == document[registered + 1].id
     IN  tools' = [n \in {id} \cup DOMAIN tools |->
                     IF n = id THEN registered + 1 ELSE tools[n]]
  /\ UNCHANGED <<document, call>>

\* The arguments that bind parameters of the operation's own, as text.  JSON
\* numbers are floats: 7 is printed as it was typed, 12345678 is not.
Declared(o, args) == [t \in DOMAIN args \cap o.declares |-> Printed[args[t]]]

\* buildHandler, as far as the path goes.
CallTool(n, args) ==
  /\ registered = Len(document) /\ n \in DOMAIN tools
  /\ LET o == document[tools[n]]
     IN  call' = [tool |-> n, arguments |-> args, op |-> tools[n],
                  url |-> Resolve(o, Declared(o, args))]
  /\ UNCHANGED <<document, registered, tools>>

ToolsNext ==
  \/ Register
  \/ \E n \in DOMAIN tools, args \in Arguments : CallTool(n, args)

\* Types: a tool's handler has an operation that is registered.
ToolsTypeOK ==
  /\ registered \in 0..Len(document)
  /\ \A n \in DOMAIN tools : tools[n] \in 1..registered
  /\ call.op \in 0..Len(document)
=============================================================================
