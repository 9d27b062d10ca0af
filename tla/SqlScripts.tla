------------------------------ MODULE SqlScripts ------------------------------
(***************************************************************************)
(* Texts of several statements: the parser (sql/parser.rs), the REPL,      *)
(* --command and --file (server/repl.rs), which run them in one session,   *)
(* and what is printed of their answers (server/print.rs).  The one        *)
(* setting stands for those of SHOW VARIABLES (sql/session/show.rs,        *)
(* catalog/internal.rs).  A line is a sequence of words.                   *)
(***************************************************************************)
EXTENDS Integers, FiniteSets, Sequences, SequencesExt

CONSTANTS
  Scripts,     \* the texts of files and --command: words, and ends of lines
  Lines,       \* that may be typed
  Native,      \* statements of the SQL parser, among them <<"set", value>>
  Default,     \* of the setting
  Patterns,    \* [patterns -> whether the setting is LIKE it]
  Batches,     \* what queries may answer: sequences of numbers of rows
  MaxPreview,  \* INTERACTIVE_MAX_ROWS
  MaxLines,    \* bound of the lines that are typed
  Nothing

VARIABLES
  mode,     \* "repl", or "script" for --command and --file
  input,    \* the last: its text, how many were typed, and where it is: being
            \* read, parsed or run, or how it ended
  reader,   \* the tokenizer: the next word, whether it is commented, the tokens
  parser,   \* the next token, expecting_statement_delimiter, and stmts
  todo,     \* the statements of the input that have not begun
  setting,
  running,  \* the statement whose answer is fetched, or Nothing
  printed,  \* the answers printed for the input
  log       \* the statements that began in the session: for this input, and
            \* those before

scriptVars == <<mode, input, reader, parser, todo, setting, running, printed, log>>

(* Tokens that end what is before them.                                    *)
NewLine == "\n"
SemiColon == ";"
LineComment == "--"
ShowVariables == <<"show", "variables">>

Fetching == [statement : Seq(STRING), entries : SUBSET STRING, answer : Seq(Nat),
             batch : Nat, count : Nat, kept : Seq(Nat)]

(* A statement of the SQL parser has no delimiter in it; SHOW VARIABLES    *)
(* does not get there, and SET has a value.                                *)
ScriptAssumption ==
  /\ Scripts \cup Lines \cup Native \subseteq Seq(STRING) /\ DOMAIN Patterns \subseteq STRING \ {SemiColon}
  /\ \A line \in Lines : \A i \in DOMAIN line : line[i] # NewLine
  /\ \A s \in Native : /\ s # <<>> /\ \A i \in DOMAIN s : s[i] # SemiColon
                       /\ ~IsPrefix(ShowVariables, s) /\ (s[1] = "set" => Len(s) > 1)
  /\ Batches \subseteq Seq(Nat) /\ MaxPreview \in Nat /\ Default \in STRING /\ Nothing \notin Fetching

AtFirst == [reader |-> [at |-> 1, comment |-> FALSE, tokens |-> <<>>],
            parser |-> [at |-> 1, expecting |-> FALSE, stmts |-> <<>>]]

ScriptInit ==
  /\ mode \in {"repl", "script"} /\ setting = Default
  /\ input = [text |-> <<>>, end |-> "ok", typed |-> 0]
  /\ reader = AtFirst.reader /\ parser = AtFirst.parser
  /\ todo = <<>> /\ running = Nothing /\ printed = <<>>
  /\ log = [begun |-> <<>>, past |-> <<>>]

-----------------------------------------------------------------------------

(* exec_sql: the text is read and parsed before any statement runs.        *)
Take(text, end) ==
  /\ input' = [text |-> text, end |-> end, typed |-> input.typed + 1]
  /\ reader' = AtFirst.reader /\ parser' = AtFirst.parser
  /\ printed' = <<>> /\ log' = [begun |-> <<>>, past |-> log.past \o log.begun]
  /\ UNCHANGED <<mode, todo, setting, running>>

(* --command, --file.                                                      *)
RunScript(text) ==
  /\ mode = "script" /\ input.typed = 0
  /\ Take(text, "read")

(* A line is added to those before it; what ends with a delimiter is run,  *)
(* or is the command to leave.  Lines are trimmed, and joined by spaces.   *)
Waits == input.end = "more"
AtPrompt == mode = "repl" /\ input.end \notin {"read", "parsed", "running", "left"}
TypeLine(line) ==
  LET text == IF Waits THEN input.text \o line ELSE line
      delimited == text # <<>> /\ text[Len(text)] = SemiColon IN
  /\ AtPrompt /\ input.typed < MaxLines
  /\ IF delimited /\ text = <<"quit", SemiColon>>
     THEN input' = [input EXCEPT !.end = "left"]
          /\ UNCHANGED <<mode, reader, parser, todo, setting, running, printed, log>>
     ELSE Take(text, IF delimited THEN "read" ELSE "more")

(* Ctrl-C at the prompt forgets the lines before, Ctrl-D leaves.           *)
Leave(end) ==
  /\ AtPrompt /\ (end = "dropped" => Waits)
  /\ input' = [input EXCEPT !.end = end]
  /\ UNCHANGED <<mode, reader, parser, todo, setting, running, printed, log>>

(* The tokenizer: a comment ends with its line.                            *)
ReadWord ==
  /\ input.end = "read" /\ reader.at <= Len(input.text)
  /\ LET word == input.text[reader.at]
         comment == word # NewLine /\ (word = LineComment \/ reader.comment) IN
     reader' = [at |-> reader.at + 1, comment |-> comment,
                tokens |-> IF comment \/ word = NewLine THEN reader.tokens ELSE Append(reader.tokens, word)]
  /\ UNCHANGED <<mode, input, parser, todo, setting, running, printed, log>>

AllRead ==
  /\ input.end = "read" /\ reader.at > Len(input.text)
  /\ input' = [input EXCEPT !.end = "parsed"]
  /\ UNCHANGED <<mode, reader, parser, todo, setting, running, printed, log>>

(* parse_show, and what else the SQL parser takes, all it can: the number  *)
(* of tokens, none if it is no statement.                                  *)
Taken(tokens, at) ==
  LET n == Len(tokens)
      taken(k) == SubSeq(tokens, at, at + k - 1)
      native == {k \in 1..(n - at + 1) : taken(k) \in Native} IN
  IF at < n /\ taken(2) = ShowVariables
  THEN IF at + 2 <= n /\ tokens[at + 2] = "like"
       THEN IF at + 3 <= n /\ tokens[at + 3] \in DOMAIN Patterns THEN {4} ELSE {}
       ELSE {2}
  ELSE {k \in native : \A j \in native : j <= k}

(* parse_statements: one round of its loop.  Mutant: two statements need   *)
(* no delimiter between them.                                              *)
NeverExpecting == FALSE
Expecting == parser.expecting
More == input.end = "parsed" /\ parser.at <= Len(reader.tokens)

Delimiter ==
  /\ More /\ reader.tokens[parser.at] = SemiColon
  /\ parser' = [parser EXCEPT !.at = @ + 1, !.expecting = FALSE]
  /\ UNCHANGED <<mode, input, reader, todo, setting, running, printed, log>>

ParseStatement ==
  /\ More /\ reader.tokens[parser.at] # SemiColon /\ ~Expecting
  /\ \E n \in Taken(reader.tokens, parser.at) :
       parser' = [at |-> parser.at + n, expecting |-> TRUE,
                  stmts |-> Append(parser.stmts, SubSeq(reader.tokens, parser.at, parser.at + n - 1))]
  /\ UNCHANGED <<mode, input, reader, todo, setting, running, printed, log>>

Expected ==
  /\ More /\ reader.tokens[parser.at] # SemiColon
  /\ Expecting \/ Taken(reader.tokens, parser.at) = {}
  /\ input' = [input EXCEPT !.end = "refused"]
  /\ UNCHANGED <<mode, reader, parser, todo, setting, running, printed, log>>

Parsed ==
  /\ input.end = "parsed" /\ parser.at > Len(reader.tokens)
  /\ input' = [input EXCEPT !.end = IF parser.stmts = <<>> THEN "ok" ELSE "running"]
  /\ todo' = parser.stmts
  /\ UNCHANGED <<mode, reader, parser, setting, running, printed, log>>

-----------------------------------------------------------------------------

(* handle_show_variables, and the table of the internal catalog: what is   *)
(* set when the statement begins.                                          *)
IsShow(statement) == IsPrefix(ShowVariables, statement)
Entries(statement) ==
  IF IsShow(statement) /\ (Len(statement) = 4 => Patterns[statement[4]]) THEN {setting} ELSE {}

Answers(statement) ==
  CASE IsShow(statement) -> {<<Cardinality(Entries(statement))>>}
    [] statement[1] = "set" -> {<<>>}
    [] OTHER -> Batches

(* exec_statement: the statement is planned, which is when SET sets.       *)
Begin ==
  /\ running = Nothing /\ todo # <<>>
  /\ LET statement == Head(todo) IN
     /\ \E answer \in Answers(statement) :
          running' = [statement |-> statement, entries |-> Entries(statement), answer |-> answer,
                      batch |-> 1, count |-> 0, kept |-> <<>>]
     /\ setting' = IF statement[1] = "set" THEN statement[2] ELSE setting
     /\ log' = [log EXCEPT !.begun = Append(@, statement)]
  /\ todo' = Tail(todo)
  /\ UNCHANGED <<mode, input, reader, parser, printed>>

(* Every batch is counted; of its rows the REPL keeps what the preview has *)
(* room for.  Mutant: room for every batch.                                *)
Least(m, n) == IF m <= n THEN m ELSE n
RoomForEach(count, n) == IF mode = "repl" THEN Least(MaxPreview, n) ELSE n
RowsToDisplay(count, n) ==
  IF mode = "script" THEN n ELSE IF count < MaxPreview THEN Least(MaxPreview - count, n) ELSE 0

Fetch ==
  /\ running # Nothing /\ running.batch <= Len(running.answer)
  /\ LET n == running.answer[running.batch] IN
     running' = [running EXCEPT
       !.batch = @ + 1, !.count = @ + n,
       !.kept = @ \o [i \in 1..RowsToDisplay(running.count, n) |-> running.count + i]]
  /\ UNCHANGED <<mode, input, reader, parser, todo, setting, printed, log>>

(* print_results, or print_batches; the next statement is up.              *)
Notice(count) == mode = "repl" /\ count > MaxPreview
PrintAnswer ==
  /\ running # Nothing /\ running.batch > Len(running.answer)
  /\ printed' = Append(printed, [statement |-> running.statement, entries |-> running.entries,
       answer |-> running.answer, rows |-> running.kept, count |-> running.count, notice |-> Notice(running.count)])
  /\ running' = Nothing
  /\ input' = [input EXCEPT !.end = IF todo = <<>> THEN "ok" ELSE "running"]
  /\ UNCHANGED <<mode, reader, parser, todo, setting, log>>

(* A statement fails, or Ctrl-C drops it: the rest of the input is dropped *)
(* as well.                                                                *)
Abandon(end) ==
  /\ input.end = "running" /\ (end = "dropped" => mode = "repl")
  /\ input' = [input EXCEPT !.end = end]
  /\ todo' = <<>> /\ running' = Nothing
  /\ UNCHANGED <<mode, reader, parser, setting, printed, log>>

ScriptNext ==
  \/ \E text \in Scripts : RunScript(text)
  \/ \E line \in Lines : TypeLine(line)
  \/ Leave("dropped") \/ Leave("left")
  \/ ReadWord \/ AllRead
  \/ Delimiter \/ ParseStatement \/ Expected \/ Parsed
  \/ Begin \/ Fetch \/ PrintAnswer
  \/ Abandon("failed") \/ Abandon("dropped")

ScriptSpec == ScriptInit /\ [][ScriptNext]_scriptVars

-----------------------------------------------------------------------------

(* The statements a text has: what is between its delimiters, but for the  *)
(* comments, which reach to the ends of their lines.                       *)
Nth(S, n) == CHOOSE i \in S : Cardinality({j \in S : j <= i}) = n

Commented(text, i) == \E j \in 1..i : text[j] = LineComment /\ \A k \in j..i : text[k] # NewLine
WordsOf(text) == {i \in DOMAIN text : text[i] # NewLine /\ ~Commented(text, i)}
Given(text) == [n \in 1..Cardinality(WordsOf(text)) |-> text[Nth(WordsOf(text), n)]]

Starts(words) == {i \in DOMAIN words : words[i] # SemiColon /\ (i = 1 \/ words[i - 1] = SemiColon)}
IsEnd(words, i, n) ==
  (\A j \in i..n : words[j] # SemiColon) /\ (n = Len(words) \/ words[n + 1] = SemiColon)
PieceAt(words, i) == SubSeq(words, i, CHOOSE n \in i..Len(words) : IsEnd(words, i, n))
Pieces(words) == [n \in 1..Cardinality(Starts(words)) |-> PieceAt(words, Nth(Starts(words), n))]

IsStatement(piece) ==
  piece \in Native \cup {ShowVariables} \cup {<<"show", "variables", "like", p>> : p \in DOMAIN Patterns}

(* The setting after a history of statements.                              *)
IsSetBy(history, value) ==
  \/ value = Default /\ \A i \in DOMAIN history : history[i][1] # "set"
  \/ \E i \in DOMAIN history :
       /\ history[i][1] = "set" /\ value = history[i][2]
       /\ \A j \in DOMAIN history : j > i => history[j][1] # "set"

RowsIn(answer, n) == UNION {{b} \X (1..answer[b]) : b \in 1..n}

(* "A file can contain multiple statements separated by semicolons; they   *)
(* run in order in the same session", and so do those that are typed: none *)
(* runs unless all are statements, the ones that begin are the first of    *)
(* the text, and if none fails all answer, with the settings made before.  *)
(* The answer is printed whole, but by "the interactive CLI at most the    *)
(* first 1000 rows, with a notice" if there are more (docs/src/            *)
(* getting-started.md).  The REPL has one line, where a comment does not   *)
(* end.                                                                    *)
RunAsWritten ==
  LET pieces == Pieces(Given(input.text))
      proper == \A i \in DOMAIN pieces : IsStatement(pieces[i])
      begun == log.begun IN
  /\ begun # <<>> => proper /\ IsPrefix(begun, pieces)
  /\ input.end = "refused" => ~proper
  /\ input.end = "ok" => proper /\ [i \in DOMAIN printed |-> printed[i].statement] = pieces
  /\ \A i \in DOMAIN printed :
       LET answer == printed[i]
           total == Cardinality(RowsIn(answer.answer, Len(answer.answer)))
           shown == IF mode = "repl" THEN Least(total, MaxPreview) ELSE total IN
       /\ answer.statement = begun[i]
       /\ answer.count = total /\ answer.rows = [k \in 1..shown |-> k]
       /\ answer.notice <=> shown < total
       /\ \A e \in answer.entries : IsSetBy(log.past \o SubSeq(begun, 1, i - 1), e)
       /\ begun[i] = ShowVariables => answer.entries # {}

=============================================================================
