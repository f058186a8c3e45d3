------------------------------ MODULE Console ------------------------------
(***************************************************************************)
(* The console: cli/cli.c reads a line from the terminal and edits it,     *)
(* cuts it into commands at the semicolons and each command into words;    *)
(* cli/command.c looks the command up and calls it.                        *)
(*                                                                         *)
(* External: the terminal shows what is echoed, and goes back on a         *)
(* backspace.  What a command reads through a null pointer is whatever is  *)
(* at address 0, or the end of the program.                                *)
(*                                                                         *)
(* What the commands do is left out, as are their output, the sorting of   *)
(* the table by help, which changes no look-up, and tabs: isprint(TAB) is  *)
(* false, so that none gets into a line.                                   *)
(***************************************************************************)
EXTENDS Integers, SequencesExt, FiniteSetsExt

CONSTANTS
    CBSIZE,         \* CONFIG_SYS_CBSIZE: the 64 in the code
    MAXARGS,        \* CONFIG_SYS_MAXARGS: the 8 in the code
    Chars           \* bound: characters that are typed

ASSUME ConsoleAssumption ==
    /\ CBSIZE \in Nat /\ CBSIZE > 2
    /\ MAXARGS \in Nat /\ MAXARGS > 3

Prompt == <<"=", ">", " ">>

VARIABLES
    cli_pc,         \* "read", "split", "process", "dead"
    buffer,         \* what was typed
    screen,         \* the line of the terminal
    col,            \* where its cursor is, as the code counts it
    cmdbuf,         \* the line that runs
    str,            \* where its next command starts
    first, sep,     \* the command in work, and its separator
    argc, argv,     \* its words: where they start; Null; or Stale, as on a new stack
    ran             \* the last command that was called: its command and arguments

edit == <<buffer, screen, col>>
run == <<cmdbuf, str, first, sep, argc, argv>>
cli_vars == <<cli_pc, edit, run, ran>>

Null == 0
Stale == -1
NoCommand == [name |-> <<>>, args |-> <<>>, typed |-> TRUE]

ConsoleTypeOK ==
    /\ cli_pc \in {"read", "split", "process", "dead"}
    /\ buffer \in Seq(Chars) /\ Len(buffer) <= CBSIZE - 2
    /\ col \in Nat
    /\ cmdbuf \in Seq(Chars) /\ Len(cmdbuf) < CBSIZE
    /\ str \in 1 .. CBSIZE /\ first \in 1 .. CBSIZE /\ sep \in 1 .. CBSIZE
    /\ argc \in 0 .. MAXARGS
    /\ argv \in [0 .. MAXARGS -> Stale .. CBSIZE]

NewArgv == [i \in 0 .. MAXARGS |-> Stale]

ConsoleInit ==
    /\ cli_pc = "read"
    /\ buffer = <<>> /\ screen = Prompt /\ col = Len(Prompt)
    /\ cmdbuf = <<>> /\ str = 1 /\ first = 1 /\ sep = 1
    /\ argc = 0 /\ argv = NewArgv
    /\ ran = NoCommand

-----------------------------------------------------------------------------
(***************************************************************************)
(* cli_readline_into_buffer                                                *)
(***************************************************************************)

\* k times erase_seq.
Erased(k) == SubSeq(screen, 1, Len(screen) - k)

TypeChar(c) ==
    /\ cli_pc = "read"
    /\ Len(buffer) < CBSIZE - 2
    /\ buffer' = Append(buffer, c)
    /\ screen' = Append(screen, c)
    /\ col' = col + 1
    /\ UNCHANGED <<cli_pc, run, ran>>

\* delete_char, k times.
DeleteColKept(k) == col                            \* mutant: col is left as it is
DeleteCol(k) == col - k
DeleteChars(k) ==
    /\ buffer' = SubSeq(buffer, 1, Len(buffer) - k)
    /\ screen' = Erased(k)
    /\ col' = DeleteCol(k)

Backspace ==
    /\ cli_pc = "read"
    /\ DeleteChars(IF buffer = <<>> THEN 0 ELSE 1)
    /\ UNCHANGED <<cli_pc, run, ran>>

\* ^W deletes a character before it looks for a blank: the blank before the word goes too.
EraseWord ==
    /\ cli_pc = "read"
    /\ LET n == Len(buffer)
       IN  DeleteChars(IF n = 0 THEN 0
                       ELSE Min({k \in 1 .. n : buffer[n - k + 1] = " " \/ k = n}))
    /\ UNCHANGED <<cli_pc, run, ran>>

EraseLine ==
    /\ cli_pc = "read"
    /\ buffer' = <<>>
    /\ screen' = Erased(col - Len(Prompt))
    /\ col' = Len(Prompt)
    /\ UNCHANGED <<cli_pc, run, ran>>

\* The prompt of the next line.
NewLine == buffer' = <<>> /\ screen' = Prompt /\ col' = Len(Prompt)

Interrupt == cli_pc = "read" /\ NewLine /\ UNCHANGED <<cli_pc, run, ran>>

\* Enter, and the start of cli_simple_run_command.
Enter ==
    /\ cli_pc = "read"
    /\ NewLine
    /\ IF buffer = <<>> \/ Len(buffer) >= CBSIZE
       THEN UNCHANGED <<cli_pc, run>>
       ELSE /\ cli_pc' = "split"
            /\ cmdbuf' = buffer
            /\ UNCHANGED <<str, first, sep, argc, argv>>
    /\ UNCHANGED ran

-----------------------------------------------------------------------------
(***************************************************************************)
(* cli_simple_run_command                                                  *)
(***************************************************************************)

\* The character before the one at i.  Before the line it is what is on the stack, and
\* before any other command the end of the last one.
Before(i, below) == IF i > str THEN cmdbuf[i - 1] ELSE IF str = 1 THEN below ELSE "end"

InQuotes(i, below) ==
    Quantify(str .. i, LAMBDA j : cmdbuf[j] = "'" /\ Before(j, below) # "\\") % 2 = 1

Separators(below) ==
    {i \in str + 1 .. Len(cmdbuf) :
        cmdbuf[i] = ";" /\ ~InQuotes(i, below) /\ Before(i, below) # "\\"}

\* cli_simple_parse_line for the token from a up to b: where its words start.
TokenWhole(a, b) == SubSeq(cmdbuf, 1, Len(cmdbuf)) \* mutant: the separator is not overwritten
Token(a, b) == SubSeq(cmdbuf, 1, b - 1)
WordStarts(a, b) ==
    LET token == Token(a, b)
    IN  {i \in a .. Len(token) : token[i] # " " /\ (i > a => token[i - 1] = " ")}

\* One behind the other; a line has room for MAXARGS of them.
IsNth(n, i, starts) == i \in starts /\ Cardinality({j \in starts : j < i}) = n
WordsIn(a, b) ==
    LET starts == WordStarts(a, b)
        number == Cardinality(starts)
    IN  [n \in 1 .. IF number < MAXARGS THEN number ELSE MAXARGS |->
            CHOOSE i \in starts : IsNth(n - 1, i, starts)]

\* Not so if words or blanks are left behind the last one that argv has room for.
EndsWithNull(words, b) ==
    Len(words) = MAXARGS => " " \notin ToSet(SubSeq(cmdbuf, Last(words), b - 1))

Split ==
    /\ cli_pc = "split"
    /\ str <= Len(cmdbuf)
    /\ \E below \in {"\\", "end"} :
           sep' = Min(Separators(below) \cup {Len(cmdbuf) + 1})
    /\ first' = str
    /\ str' = IF sep' <= Len(cmdbuf) THEN sep' + 1 ELSE sep'
    /\ LET words == WordsIn(str, sep') IN
       /\ argc' = Len(words)
       /\ argv' = [i \in 0 .. MAXARGS |-> IF i < argc' THEN words[i + 1]
                                          ELSE IF i = argc' /\ EndsWithNull(words, sep')
                                          THEN Null ELSE argv[i]]
       /\ cli_pc' = IF argc' = 0 THEN "split" ELSE "process"
    /\ UNCHANGED <<edit, cmdbuf, ran>>

\* The line is done, and the variables are gone; the loop reads the next one.
LineDone ==
    /\ cli_pc = "split"
    /\ str > Len(cmdbuf)
    /\ cli_pc' = "read"
    /\ cmdbuf' = <<>> /\ str' = 1 /\ first' = 1 /\ sep' = 1
    /\ argc' = 0 /\ argv' = NewArgv
    /\ ran' = NoCommand
    /\ UNCHANGED edit

-----------------------------------------------------------------------------
(***************************************************************************)
(* cmd_process                                                             *)
(***************************************************************************)

\* The table, and how many of its arguments a command reads.
CmdTable ==
    {[name |-> <<"h", "e", "l", "p">>, maxargs |-> 2, reads |-> 0],
     [name |-> <<"f", "l", "d", "u", "m", "p">>, maxargs |-> 3, reads |-> 2],
     [name |-> <<"f", "l", "r", "e", "a", "d">>, maxargs |-> 4, reads |-> 3],
     [name |-> <<"f", "l", "w", "r", "i", "t", "e">>, maxargs |-> 4, reads |-> 3],
     [name |-> <<"f", "l", "e", "r", "a", "s", "e">>, maxargs |-> 3, reads |-> 2],
     [name |-> <<"c", "r", "c", "1", "6">>, maxargs |-> 3, reads |-> 2],
     [name |-> <<"l", "o", "a", "d", "b">>, maxargs |-> 2, reads |-> 1],
     [name |-> <<"m", "d">>, maxargs |-> 3, reads |-> 2],
     [name |-> <<"r", "e", "s", "e", "t">>, maxargs |-> 1, reads |-> 0]}

\* The word that starts at i.
WordAt(i) ==
    SubSeq(cmdbuf, i, Min({j \in i .. Len(Token(first, sep)) : j = Len(Token(first, sep))
                                                               \/ cmdbuf[j + 1] = " "}))

\* find_cmd_tbl, for the part of the word before a dot.
UpToDot(word) ==
    SubSeq(word, 1, Min({k \in 1 .. Len(word) : word[k] = "."} \cup {Len(word) + 1}) - 1)
FindCmd(word) ==
    LET found == {c \in CmdTable : IsPrefix(UpToDot(word), c.name)}
        full == {c \in found : c.name = UpToDot(word)}
    IN  IF full # {} THEN full ELSE IF Cardinality(found) = 1 THEN found ELSE {}

\* Unknown or ambiguous, or too many arguments.
Refuse ==
    /\ cli_pc = "process"
    /\ \A c \in FindCmd(WordAt(argv[0])) : argc > c.maxargs
    /\ cli_pc' = "split"
    /\ UNCHANGED <<edit, run, ran>>

\* cmd_call.  The command reads its arguments, however many there are.
CmdCall ==
    /\ cli_pc = "process"
    /\ \E c \in FindCmd(WordAt(argv[0])) :
           /\ argc <= c.maxargs
           /\ LET args == [i \in 1 .. c.reads |-> argv[i]] IN
              /\ ran' = [name |-> c.name, args |-> args,
                         typed |-> \A i \in 1 .. c.reads : args[i] \in first .. sep - 1]
              /\ \/ cli_pc' = "split"
                 \/ Null \in ToSet(args) /\ cli_pc' = "dead"
    /\ UNCHANGED <<edit, run>>

-----------------------------------------------------------------------------

ConsoleNext ==
    \/ \E c \in Chars : TypeChar(c)
    \/ Backspace \/ EraseWord \/ EraseLine \/ Interrupt \/ Enter
    \/ Split \/ LineDone \/ Refuse \/ CmdCall

ConsoleSpec == ConsoleInit /\ [][ConsoleNext]_cli_vars

-----------------------------------------------------------------------------
(***************************************************************************)
(* Properties                                                              *)
(***************************************************************************)

\* What the user sees after the prompt is what Enter runs, whatever was deleted how; the
\* prompt is never eaten.
ScreenShowsLine == screen = Prompt \o buffer /\ col = Len(screen)

\* A command takes every argument from its own part of the line, never from a command
\* before or after it, if it got as many as it reads; if it got fewer, which cmd_process
\* does not refuse, it reads a null pointer, and maybe words of a command before it.
RunsAsTyped ==
    /\ cli_pc \in {"split", "dead"} /\ ran # NoCommand =>
          (ran.typed <=> Null \notin ToSet(ran.args))
    /\ cli_pc = "dead" => argc <= Len(ran.args)
=============================================================================
