------------------------------- MODULE Shell -------------------------------
(***************************************************************************)
(* The interactive shell (examples/local-shell.c): a line that is typed    *)
(* becomes the query of a lookup, and what the export then holds is read   *)
(* and printed.  Lines reach the builtin commands (plugins/command/        *)
(* builtin.c) and the command "ce" through the export "api", and the       *)
(* filters of the memory plugin (plugins/memory/memory.c) through "test".  *)
(* Strings are sequences of tokens, as in Yuarel; a token counts as one    *)
(* byte, and so does a line of a listing.                                  *)
(***************************************************************************)
EXTENDS Plugins, Yuarel

CONSTANTS
    Lines,          \* lines that may be typed
    MAX_QUERY,
    MemSize,        \* size of the region (512 in the source)
    CMD_BUFFER_SZ

Zero == "0"         \* the '\0'
Junk == "junk"      \* what is left in a buffer, or beyond its end

ASSUME QueryAssumption == MAX_QUERY \in Nat \ {0}
ASSUME LinesAssumption ==
    \A line \in Lines :
        /\ IsString(line) /\ line # <<>>
        /\ \A i \in DOMAIN line : line[i] # Zero
ASSUME SizeAssumption == MemSize \in Nat \ {0}

VARIABLES
    exportname,   \* where queries go
    memory,       \* content of the region
    result,       \* of the commands
    answer,       \* last answer: [line, from, size, room, text]
    stored        \* history: what the filters so far ask the region to hold

shellVars == <<exportname, memory, result, answer, stored>>

Region == 0 .. MemSize - 1
Zeros(n) == [k \in 0 .. n - 1 |-> Zero]
NoAnswer == [line |-> <<>>, from |-> NoDriver, size |-> 0, room |-> 1, text |-> <<>>]

ShellInit ==
    /\ exportname = <<"api">>
    /\ memory = Zeros(MemSize)
    /\ result = Zeros(CMD_BUFFER_SZ)
    /\ answer = NoAnswer
    /\ stored = <<>>

\* The name a path asks for; no context has one of several tokens.
NameOf(path) == IF path = <<>> THEN "" ELSE IF Len(path) = 1 THEN path[1] ELSE "?"

-----------------------------------------------------------------------------
(* The filters of the memory plugin.                                         *)

\* A text that fits is copied to the front of a buffer.
Overlay(content, text) ==
    [k \in DOMAIN content |-> IF k < Len(text) THEN text[k + 1] ELSE content[k]]
Filtered(content, param) ==
    CASE param.key = <<"bzero">> -> Zeros(MemSize)
      [] param.key = <<"memset">> /\ param.val # NullString ->
            [k \in Region |-> IF param.val = <<>> THEN Zero ELSE param.val[1]]
      [] param.key = <<"memcpy">> /\ param.val # NullString -> Overlay(Zeros(MemSize), param.val)
      [] OTHER -> content

\* The parameters are gone through from the last to the first.
memory_query(content, params) ==
    LET after[i \in 1 .. Len(params) + 1] ==
            IF i = Len(params) + 1 THEN content ELSE Filtered(after[i + 1], params[i])
    IN after[1]

\* A text is copied whatever the size of the region.
Overruns(params) ==
    \E i \in DOMAIN params :
        params[i].key = <<"memcpy">> /\ params[i].val # NullString /\ Len(params[i].val) > MemSize

-----------------------------------------------------------------------------
(* The commands: what one writes to the result, with the '\0' of a sprintf,  *)
(* and the size of the export, when it does not fail.  The size is 1 unless  *)
(* the command sets it.                                                      *)

builtin == <<"echo", "export", "lc">>
commands == Append(builtin, "ce")
ASSUME ListAssumption == CMD_BUFFER_SZ \in Nat /\ Len(commands) < CMD_BUFFER_SZ
Silent == [text |-> <<>>, size |-> 1]

\* A '$' makes the length of a copy negative.
EchoCrashes(val) == strchr(val, "$") # 0
echo(val) == IF val = NullString THEN Silent ELSE [text |-> val, size |-> Len(val)]

lwnbd_dump_contexts ==
    LET dumped[i \in 0 .. MaxContexts] ==
            IF i = 0 THEN <<>>
            ELSE IF contexts_status[i - 1] # "FREE"
                 THEN Append(dumped[i - 1], contexts[i - 1].name) ELSE dumped[i - 1]
    IN dumped[MaxContexts]
export(val) ==
    IF val = NullString
    THEN [text |-> Append(lwnbd_dump_contexts, Zero), size |-> Len(lwnbd_dump_contexts) + 1]
    ELSE Silent

list_command == [text |-> Append(commands, Zero), size |-> Len(commands)]

set_exportname(val) ==
    [text |-> <<"export name to">> \o val \o <<Zero>>, size |-> Len(val) + 1]

\* command_query: there is no command of that name, or it fails.
Unknown(key) == \A i \in DOMAIN commands : key # <<commands[i]>>
Fails(param) == param.key = <<"ce">> /\ param.val = NullString
Result(param) ==
    CASE param.key = <<"echo">> -> echo(param.val)
      [] param.key = <<"export">> -> export(param.val)
      [] param.key = <<"lc">> -> list_command
      [] param.key = <<"ce">> -> set_exportname(param.val)

\* The commands know nothing of the size of their result.
Kills(param) ==
    /\ ~Unknown(param.key) /\ ~Fails(param)
    /\ \/ param.key = <<"echo">> /\ EchoCrashes(param.val)
       \/ Len(Result(param).text) > CMD_BUFFER_SZ

\* command_query_get blanks the result before it runs the command.
Cleared_Not == result  \* mutant
Cleared == Zeros(CMD_BUFFER_SZ)
command_query_get(param) ==
    result' = IF Fails(param) THEN Cleared ELSE Overlay(Cleared, Result(param).text)

-----------------------------------------------------------------------------
(* A turn of the shell's loop.                                               *)

\* The buffer has room for the request and its '\0', and is enlarged for the answer.
Room(uri, size) == IF Len(uri) < size + 1 THEN size + 1 ELSE Len(uri) + 1

\* lwnbd_pread into that buffer: what it held behind the answer is still there.
lwnbd_pread(content, size, room) ==
    [k \in 0 .. room - 1 |-> IF k < size THEN content[k] ELSE Junk]
strnlen(buf, n) ==
    CHOOSE k \in 0 .. n : /\ k < n => buf[k] = Zero
                          /\ \A j \in 0 .. n - 1 : j < k => buf[j] # Zero
Terminated(buf, size) == [buf EXCEPT ![strnlen(buf, size)] = Zero]

\* What printf shows of a buffer: all up to the first '\0'.
Printed(buf, room) == [i \in 1 .. strnlen(buf, room) |-> buf[i - 1]]
Show(line, from, uri, size, content) ==
    LET room == Room(uri, size)
        buf == lwnbd_pread(content, size, room)
    IN answer' = [line |-> line, from |-> from, size |-> size, room |-> room,
                  text |-> Printed(Terminated(buf, size), room)]

\* What a reader of the line expects the region to hold: the first filter of a line
\* that has an effect counts.
Effective(params) ==
    {i \in DOMAIN params :
        \/ params[i].key = <<"bzero">>
        \/ params[i].key \in {<<"memset">>, <<"memcpy">>} /\ params[i].val # NullString}
Asked(params) ==
    IF Effective(params) = {} THEN stored
    ELSE LET param == params[CHOOSE i \in Effective(params) :
                                \A j \in Effective(params) : i <= j]
         IN IF param.key = <<"bzero">> \/ param.val = <<>> THEN <<>>
            ELSE IF param.key = <<"memset">> THEN [k \in 1 .. MemSize |-> param.val[1]]
            ELSE param.val

Request(uri) ==
    LET url == yuarel_parse(uri)
        c == lwnbd_get_context_string(NameOf(url.path))
    IN [name |-> NameOf(url.path), p |-> IF c = NULL THEN NoDriver ELSE contexts[c].p,
        params |-> yuarel_parse_query(url.query, "&", MAX_QUERY)]

\* The parameters of a line that is typed behind a name without a '?'.
Parameters(line) == yuarel_parse_query(find_fragment(line).left, "&", MAX_QUERY)

\* The parameter that the commands look at.  Without a query it is what an earlier call
\* left in its place.
Looked(r) ==
    IF r.params # <<>> THEN {r.params[1]}
    ELSE {Parameters(line)[1] : line \in {l \in Lines : Parameters(l) # <<>>}}
Unasked(r) == r.p # NoDriver /\ Struct[r.p].refuses /\ r.params = <<>>

\* lwnbd_get_context of an export other than the commands', with what the query does
\* to the region.
Query(r) ==
    /\ r.p # "command"
    /\ lwnbd_get_context(r.name, r.params # <<>>)
    /\ IF r.p = "memory"
       THEN memory' = memory_query(memory, r.params) /\ stored' = Asked(r.params)
       ELSE UNCHANGED <<memory, stored>>

\* A lookup of the commands, and the answer.
CommandTurn(line, uri, r, param) ==
    /\ ~Kills(param)
    /\ lwnbd_get_context(r.name, r.params # <<>>) /\ UNCHANGED alive
    /\ \/ /\ Unknown(param.key)
          /\ ret' = NULL
          /\ UNCHANGED <<result, answer, exportname>>
       \/ /\ Fails(param)
          /\ command_query_get(param)
          /\ ret' = NULL
          /\ UNCHANGED <<answer, exportname>>
       \/ /\ ~Unknown(param.key) /\ ~Fails(param)
          /\ command_query_get(param)
          /\ ret' # NULL
          /\ Show(line, r.p, uri, Result(param).size, result')
          /\ exportname' = IF param.key = <<"ce">> THEN param.val ELSE exportname
    /\ UNCHANGED <<memory, stored>>

\* What a query may do that is undefined.
Dies(r) ==
    \/ Unasked(r)
    \/ r.p = "memory" /\ Overruns(r.params)
    \/ r.p = "command" /\ \E param \in Looked(r) : Kills(param)

ShellTurn(line) ==
    LET uri == exportname \o <<"?">> \o line
        r == Request(uri)
    IN \/ /\ ~Dies(r)
          /\ Query(r)
          /\ IF r.p = "memory" THEN Show(line, r.p, uri, MemSize, memory')
             ELSE UNCHANGED answer
          /\ UNCHANGED <<exportname, result>>
       \/ /\ r.p = "command"
          /\ \E param \in Looked(r) : CommandTurn(line, uri, r, param)
       \/ /\ Dies(r)
          /\ Crash
          /\ answer' = [answer EXCEPT !.line = line]
          /\ UNCHANGED <<tables, configured, handles, exportname, memory, result, stored>>

-----------------------------------------------------------------------------
(* Property.                                                                 *)

\* What a reader of the line expects to see.
Expected(line) ==
    LET param == Parameters(line)[1]
    IN IF answer.from = "memory" THEN stored
       ELSE CASE param.key = <<"lc">> -> commands
              [] param.key = <<"export">> /\ param.val = NullString ->
                    [i \in 1 .. lwnbd_contexts_count |-> contexts[i - 1].name]
              [] param.key = <<"ce">> -> <<"export name to">> \o param.val
              [] param.key = <<"echo">> /\ param.val # NullString -> param.val
              [] OTHER -> <<>>

\* An answer is to the line just typed, whatever was typed before: the commands there
\* are, the names of all the contexts in their order, the words to echo, nothing from a
\* command that says nothing, or what the filters say the region holds, the first of a
\* line counting.  Nothing is left of a longer answer before, of the request that was in
\* the buffer or of an older result (local-shell.c 122-157, command.c 34 and 59-63,
\* builtin.c 42-72, contexts.c 77-88, memory.c 66-88), unless the line has no query for
\* the commands, or a name with a '?', a query of its own, was given to "ce".  And it
\* always fits the buffer with its '\0'.
ShellAnswers ==
    /\ answer.size + 1 <= answer.room
    /\ Len(answer.text) <= answer.size
    /\ /\ alive /\ answer.line # <<>> /\ strchr(exportname, "?") = 0
       /\ answer.from = "command" => Parameters(answer.line) # <<>>
       => answer.text = Expected(answer.line)
=============================================================================
