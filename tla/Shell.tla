------------------------------- MODULE Shell -------------------------------
(***************************************************************************)
(* The interactive shell of lib/zcmdsh as the console and the telnet       *)
(* sessions set it up: the line editor (shell.c), its key functions and    *)
(* key maps (shell_keyfunc.c), the telnet options (shell_telnet.c), the    *)
(* history and the keys that execute, complete and list (command_shell.c). *)
(*                                                                         *)
(* One action is one shell_input() call: the key function of one byte.     *)
(* `shell` holds the fields of struct shell, and the operators keep the    *)
(* names of the C functions. `line` is command_line[0..end-1], `nul` says  *)
(* that the byte after it is the terminator. `terminal` is what the bytes  *)
(* written so far show to the right of the prompt; it is lost when a       *)
(* telnet log line is printed, until the next refresh. `ahead` says that   *)
(* shell_read() still has bytes of a read whose command started the pager. *)
(*                                                                         *)
(* What a command prints, what a completion inserts and what '?' lists are *)
(* the command tree's (CommandTree); the pager is left to Sessions.        *)
(***************************************************************************)
EXTENDS History, Sequences, FiniteSets, FiniteSetsExt

CONSTANTS
  Printable,      \* printable characters, " " among them
  Typists,        \* operators: [keys, maxline, maxcommands], see below
  Digits,         \* the bytes of subnegotiations, with the value of each
  Completions,    \* what command_complete() may return
  InitialSize,    \* INITIAL_COMMAND_LINE_SIZE (32)
  SubnegoSize,    \* sizeof subnego_buf (256)
  DumpSize,       \* end - subnego_str, where a subnegotiation is printed (63)
  Hex,            \* base of the digits it is printed in (16)
  ByteSize        \* values of a byte (256)

(* A session is typed by one operator. keys: the keys used; bounds: lines  *)
(* of at most maxline characters, at most maxcommands commands.            *)

SPACE == " "

ASSUME ShellAssumption ==
  /\ SPACE \in Printable
  /\ InitialSize \in Nat \ {0}
  /\ SubnegoSize \in Nat /\ SubnegoSize > 5
  /\ DumpSize \in Nat /\ DumpSize >= 8 + 5 * 5
  /\ Hex \in Nat
  /\ ByteSize \in Nat \ {0}
  /\ Completions \subseteq Seq(Printable)
  /\ EMPTY \notin Seq(Printable)
  /\ "NAWS" \in DOMAIN Digits
  /\ \A d \in DOMAIN Digits : Digits[d] \in 0 .. ByteSize - 1

VARIABLES
  shell,      \* struct shell
  terminal,   \* [text, col]: the screen to the right of the prompt
  failed,     \* an assert() did not hold
  overrun,    \* subnego_str was written past its end: the model stops
  ahead,      \* bytes of the last read() are left and the pager is running
  typist,     \* who types
  executed,   \* ghost: the lines executed
  client      \* ghost: the telnet client's place in the protocol, and its window

vars == <<shell, terminal, failed, overrun, ahead, typist, executed, client>>

-----------------------------------------------------------------------------
(* The terminal. Column 0 is the first one after the prompt; a blank and a  *)
(* cell never written look the same.                                        *)
Trim(text) ==
  SubSeq(text, 1, Max({0} \cup {i \in DOMAIN text : text[i] # SPACE}))

Blank == [text |-> <<>>, col |-> 0, lost |-> FALSE]

Lost == [text |-> <<>>, col |-> 0, lost |-> TRUE]

Put(t, str) ==
  LET width == Max({Len(t.text), t.col + Len(str)})
      Cell(i) == IF i \in (t.col + 1) .. (t.col + Len(str)) THEN str[i - t.col]
                 ELSE IF i <= Len(t.text) THEN t.text[i] ELSE SPACE
  IN  IF t.lost THEN t
      ELSE [t EXCEPT !.text = Trim([i \in 1 .. width |-> Cell(i)]),
                     !.col = @ + Len(str)]

(* for (i = from; to < i; i--) writec (CONTROL ('H')) *)
BackTo(t, from, to) ==
  IF t.lost THEN t ELSE [t EXCEPT !.col = @ - Max({0, from - to})]

(* shell_prompt(): a carriage return and the prompt. *)
shell_prompt(t) == IF t.lost THEN Blank ELSE [t EXCEPT !.col = 0]

shell_linefeed(t) == Blank

-----------------------------------------------------------------------------
(* The operations work on a pair of shell and terminal, and on the outcome  *)
(* of the assert()s they pass.                                              *)
State == [sh |-> shell, tty |-> terminal, failed |-> failed]

Abort(s) == [s EXCEPT !.failed = TRUE]

shell_terminate(s) == [s EXCEPT !.sh.nul = Len(s.sh.line) < s.sh.size]

shell_clear(s) ==
  shell_terminate([s EXCEPT !.sh.line = <<>>, !.sh.cursor = 0])

(* The sizes after up to n calls of shell_expand(). *)
Doubled(size, n) ==
  LET double[k \in 0 .. n] == IF k = 0 THEN size ELSE 2 * double[k - 1]
  IN  double

(* Mutant: no room for the terminator. *)
XNoTerminator(size, need) ==
  Min({n \in {Doubled(size, need)[k] : k \in 0 .. need} : n >= need - 1})

(* shell_expand() until the line, the insertion and the terminator fit. *)
Expanded(size, need) ==
  Min({n \in {Doubled(size, need)[k] : k \in 0 .. need} : n >= need})

shell_insert(s, str) ==
  LET old == s.sh.line
      cur == s.sh.cursor
      new == SubSeq(old, 1, cur) \o str \o SubSeq(old, cur + 1, Len(old))
      put == Put(s.tty, SubSeq(new, cur + 1, Len(new)))
  IN  [shell_terminate([s EXCEPT !.sh.line = new,
                                 !.sh.size = Expanded(@, Len(new) + 1)])
        EXCEPT !.sh.cursor = cur + Len(str),
               !.tty = BackTo(put, Len(new), cur + Len(str))]

(* Mutant: only the part that moves is redrawn. *)
XNoErase(s, start, end) ==
  LET old == s.sh.line
      new == SubSeq(old, 1, start) \o SubSeq(old, end + 1, Len(old))
      put == Put(BackTo(s.tty, s.sh.cursor, start), SubSeq(new, start + 1, Len(new)))
  IN  IF ~(0 <= start /\ start <= end /\ end <= Len(old)) THEN Abort(s)
      ELSE shell_terminate([s EXCEPT !.sh.line = new, !.sh.cursor = start,
                                     !.tty = BackTo(put, Len(new), start)])

(* The part that moves is redrawn with blanks up to the previous end. *)
shell_delete_string(s, start, end) ==
  LET old == s.sh.line
      new == SubSeq(old, 1, start) \o SubSeq(old, end + 1, Len(old))
      drawn == SubSeq(new, start + 1, Len(new)) \o [i \in 1 .. end - start |-> SPACE]
      put == Put(BackTo(s.tty, s.sh.cursor, start), drawn)
  IN  IF ~(0 <= start /\ start <= end /\ end <= Len(old)) THEN Abort(s)
      ELSE shell_terminate([s EXCEPT !.sh.line = new, !.sh.cursor = start,
                                     !.tty = BackTo(put, Len(old), start)])

(* Mutant: the cut buffer is taken after the deletion. *)
XCutAfter(s, start, end) ==
  LET del == shell_delete_string(s, start, end)
  IN  IF start = end THEN [s EXCEPT !.sh.cut_buffer = EMPTY]
      ELSE [del EXCEPT !.sh.cut_buffer =
              SubSeq(del.sh.line, start + 1, Min({end, Len(del.sh.line)}))]

(* An empty cut empties the cut buffer too. *)
shell_cut(s, start, end) ==
  LET cut == [s EXCEPT !.sh.cut_buffer = SubSeq(s.sh.line, start + 1, end)]
  IN  IF ~(0 <= start /\ start <= end /\ end <= Len(s.sh.line)) THEN Abort(s)
      ELSE IF start = end THEN [s EXCEPT !.sh.cut_buffer = EMPTY]
      ELSE shell_delete_string(cut, start, end)

shell_forward(s, num) ==
  IF s.sh.cursor + num > Len(s.sh.line) THEN s
  ELSE [s EXCEPT !.sh.cursor = @ + num,
          !.tty = Put(@, SubSeq(s.sh.line, s.sh.cursor + 1, s.sh.cursor + num))]

shell_backward(s, num) ==
  IF s.sh.cursor - num < 0 THEN s
  ELSE [s EXCEPT !.sh.cursor = @ - num, !.tty = BackTo(@, num, 0)]

shell_moveto(s, index) ==
  IF index \notin 0 .. Len(s.sh.line) THEN Abort(s)
  ELSE IF s.sh.cursor < index THEN shell_forward(s, index - s.sh.cursor)
  ELSE shell_backward(s, s.sh.cursor - index)

shell_refresh(s) ==
  [s EXCEPT !.tty = BackTo(Put(shell_prompt(s.tty), s.sh.line),
                           Len(s.sh.line), s.sh.cursor)]

(* The loop of shell_format(), what it has copied after each character: no  *)
(* blank at the beginning, no blank after a blank.                          *)
Copied(line) ==
  LET Keep(i) == line[i] # SPACE \/ (i > 1 /\ line[i - 1] # SPACE)
      copied[i \in 0 .. Len(line)] ==
        IF i = 0 THEN <<>>
        ELSE IF Keep(i) THEN Append(copied[i - 1], line[i]) ELSE copied[i - 1]
  IN  copied

shell_format(s) ==
  LET new == Copied(s.sh.line)[Len(s.sh.line)]
      cur == Len(Copied(s.sh.line)[s.sh.cursor])
      put == Put(BackTo(s.tty, s.sh.cursor, 0),
                 new \o [i \in 1 .. Len(s.sh.line) - Len(new) |-> SPACE])
  IN  shell_terminate([s EXCEPT !.sh.line = new, !.sh.cursor = cur,
                                !.tty = BackTo(put, Len(s.sh.line), cur)])

-----------------------------------------------------------------------------
(* Words. strsep() splits the line at every delimiter: tokens may be empty. *)
Delimiters == {SPACE}

SubDelimiters == {SPACE, "/"}

(* Offsets at which tokens begin, and the length of the token at an offset. *)
Offsets(line, delims) == {0} \cup {i \in DOMAIN line : line[i] \in delims}

Token(line, delims, o) ==
  LET stops == {i \in (o + 1) .. Len(line) : line[i] \in delims}
  IN  IF stops = {} THEN Len(line) - o ELSE Min(stops) - 1 - o

Words(line, delims) == {o \in Offsets(line, delims) : Token(line, delims, o) # 0}

(* The loop of shell_word_head(), shell_subword_head() and shell_word_end() *)
(* stops at the first token past the point: it has seen the words before it.*)
Seek(line, delims, point) == Max({0} \cup {o \in Words(line, delims) : o <= point})

WordHead(line, delims, point) ==
  LET word == Seek(line, delims, point)
  IN  IF word + Token(line, delims, word) < point THEN point ELSE word

shell_word_end(line, point) ==
  LET word == Seek(line, Delimiters, point)
      end == word + Token(line, Delimiters, word)
  IN  Max({end, point})

(* The first token that holds the point, its boundaries included. *)
Holder(line, delims, point) ==
  Min({o \in Offsets(line, delims) : o <= point /\ point <= o + Token(line, delims, o)})

shell_subword_prev_head(line, point) ==
  LET holder == Holder(line, SubDelimiters, point)
  IN  Max({0} \cup {o \in Words(line, SubDelimiters) : o < holder})

shell_word_next_head(line, point) ==
  LET holder == Holder(line, Delimiters, point)
      next == holder + Token(line, Delimiters, holder) + 1
  IN  IF next \in Words(line, Delimiters) THEN next ELSE Len(line)

(* Mutant: at the head of a word, stay there. *)
XWordStay(line, point) == WordHead(line, SubDelimiters, point)

(* Where a step back over a word goes. *)
WordBackward(line, point) ==
  LET head == WordHead(line, SubDelimiters, point)
  IN  IF head = point THEN shell_subword_prev_head(line, point) ELSE head

shell_delete_word_backward(s) ==
  shell_cut(s, WordBackward(s.sh.line, s.sh.cursor), s.sh.cursor)

shell_move_word_backward(s) ==
  shell_moveto(s, WordBackward(s.sh.line, s.sh.cursor))

shell_move_word_forward(s) ==
  shell_moveto(s, shell_word_next_head(s.sh.line, s.sh.cursor))

-----------------------------------------------------------------------------
(* Key functions. A key acts through the keymap in force. While the pager   *)
(* runs the session feeds it, and only the rest of a read reaches the shell.*)
Key(keymap, k) ==
  /\ k \in typist.keys
  /\ shell.keymap = keymap
  /\ shell.is_paging => ahead

Becomes(s) ==
  /\ ~overrun
  /\ Len(s.sh.line) <= typist.maxline
  /\ shell' = s.sh /\ terminal' = s.tty /\ failed' = s.failed
  /\ ahead' \in {more \in BOOLEAN : more => s.sh.is_paging}
  /\ UNCHANGED <<typist, overrun>>

Edit(s) == Becomes(s) /\ UNCHANGED <<executed, client>>

shell_input_char ==
  \E ch \in Printable : Key("normal", ch) /\ Edit(shell_insert(State, <<ch>>))

shell_keyfunc_move_to_begin ==
  Key("normal", "C-A") /\ Edit(shell_backward(State, shell.cursor))

shell_keyfunc_backward_char ==
  Key("normal", "C-B") /\ Edit(shell_backward(State, 1))

shell_keyfunc_delete_char ==
  /\ Key("normal", "C-D")
  /\ shell.cursor < Len(shell.line)
  /\ Edit(shell_delete_string(State, shell.cursor, shell.cursor + 1))

shell_keyfunc_move_to_end ==
  Key("normal", "C-E") /\ Edit(shell_forward(State, Len(shell.line) - shell.cursor))

shell_keyfunc_forward_char ==
  Key("normal", "C-F") /\ Edit(shell_forward(State, 1))

(* The operator's backspace; SHELL_FLAG_ESCAPE is never set in these shells.*)
shell_keyfunc_backspace ==
  /\ Key("normal", "C-H")
  /\ shell.cursor > 0
  /\ LET back == shell_backward(State, 1)
     IN  Edit(shell_delete_string(back, back.sh.cursor, back.sh.cursor + 1))

shell_keyfunc_delete_char_advanced ==
  /\ Key("normal", "DEL")
  /\ \/ /\ shell.cursor < Len(shell.line)
        /\ Edit(shell_delete_string(State, shell.cursor, shell.cursor + 1))
     \/ /\ shell.cursor = Len(shell.line) /\ shell.line # <<>>
        /\ Edit(shell_delete_string(State, Len(shell.line) - 1, Len(shell.line)))

KillLine(s) == shell_cut(s, s.sh.cursor, Len(s.sh.line))

KillAll(s) == shell_cut(shell_backward(s, s.sh.cursor), 0, Len(s.sh.line))

Yank(s) == shell_insert(s, s.sh.cut_buffer)

shell_keyfunc_kill_line == Key("normal", "C-K") /\ Edit(KillLine(State))

shell_keyfunc_kill_all == Key("normal", "C-U") /\ Edit(KillAll(State))

shell_keyfunc_yank ==
  Key("normal", "C-Y") /\ shell.cut_buffer # EMPTY /\ Edit(Yank(State))

shell_keyfunc_delete_word_backward ==
  Key("normal", "C-W") /\ Edit(shell_delete_word_backward(State))

shell_keyfunc_refresh ==
  LET s == shell_format(State)
  IN  Key("normal", "C-R") /\ Edit(shell_refresh([s EXCEPT !.tty = shell_linefeed(@)]))

(* Clear the screen, go to the top left, refresh. *)
shell_keyfunc_clear_terminal ==
  Key("normal", "C-L") /\ Edit(shell_refresh([State EXCEPT !.tty = Blank]))

(* Escape sequences: one or two keys after ESC, then the normal map again.  *)
Mapped(s, keymap) == [s EXCEPT !.sh.keymap = keymap]

vty_shell_keyfunc_escape ==
  \/ Key("normal", "ESC") /\ Edit(Mapped(State, "escape_1"))
  \/ Key("escape_1", "[") /\ Edit(Mapped(State, "escape_2"))

vty_shell_move_word_backward ==
  Key("escape_1", "b") /\ Edit(Mapped(shell_move_word_backward(State), "normal"))

vty_shell_move_word_forward ==
  Key("escape_1", "f") /\ Edit(Mapped(shell_move_word_forward(State), "normal"))

vty_shell_delete_word_backward ==
  \E k \in {"C-H", "DEL"} :
    Key("escape_1", k) /\ Edit(Mapped(shell_delete_word_backward(State), "normal"))

(* The ghost of a telnet client the shell cannot follow any more. *)
Astray == [at |-> "astray", sent |-> <<>>, window |-> <<>>]

(* Any other key is swallowed, the first byte of a telnet command too. *)
vty_shell_keyfunc_normal ==
  \E k \in typist.keys :
    /\ \/ Key("escape_1", k) /\ k \notin {"b", "f", "C-H", "DEL", "["}
       \/ Key("escape_2", k)
    /\ Becomes(Mapped(State, "normal"))
    /\ client' = IF k = "IAC" THEN Astray ELSE client
    /\ UNCHANGED executed

-----------------------------------------------------------------------------
(* History, completion, listing and execution (command_shell.c).            *)
Recall(s, slot) ==
  [shell_insert(shell_delete_string(s, 0, Len(s.sh.line)), s.sh.history.array[slot])
    EXCEPT !.sh.history.current = slot]

command_history_prev ==
  /\ Key("normal", "C-P")
  /\ PrevAllowed(shell.history)
  /\ Edit(Recall(State, HISTORY_PREV(shell.history.current)))

command_history_next ==
  /\ Key("normal", "C-N")
  /\ NextAllowed(shell.history)
  /\ Edit(Recall(State, HISTORY_NEXT(shell.history.current)))

(* To the end of the word, then what command_complete() returns, if anything*)
command_shell_completion ==
  LET s == shell_moveto(State, shell_word_end(shell.line, shell.cursor))
  IN  /\ Key("normal", "C-I")
      /\ \/ Edit(s)
         \/ \E c \in Completions : Edit(shell_insert(s, c))

(* '?': the line is shown whole, then the candidates, then the line again.  *)
command_shell_ls_candidate ==
  LET end == shell_refresh([State EXCEPT !.sh.cursor = Len(shell.line)])
      s == IF shell.cursor = Len(shell.line) THEN State
           ELSE [shell_format(end) EXCEPT !.tty = Blank]
  IN  Key("normal", "?") /\ Edit(shell_refresh([s EXCEPT !.tty = shell_linefeed(@)]))

(* The line up to the first '#' or '!', formatted. *)
Comments == {"#", "!"}

Uncommented(s) ==
  LET comment == {i \in DOMAIN s.sh.line : s.sh.line[i] \in Comments}
      end == IF comment = {} THEN Len(s.sh.line) ELSE Min(comment) - 1
  IN  shell_terminate([s EXCEPT !.sh.line = SubSeq(@, 1, end),
                                !.sh.cursor = Min({@, end})])

Formatted(s) == LET f == shell_format(Uncommented(s))
                IN  [f EXCEPT !.tty = shell_linefeed(@)]

Prompted(s) == shell_refresh(shell_clear(s))

Remember(s) ==
  [s EXCEPT !.sh.history = command_history_add(@, s.sh.line),
            !.failed = @ \/ ~AddAllowed(s.sh.history)]

(* The command runs and is remembered. Its pager may still be running when  *)
(* the key function returns: then the line is cleared only when it ends.    *)
command_shell_execute ==
  LET s == Formatted(State)
      r == Remember(s)
  IN  /\ \E k \in {"C-J", "C-M"} : Key("normal", k)
      /\ UNCHANGED client
      /\ \/ /\ s.sh.line = <<>>
            /\ Becomes(Prompted(s))
            /\ UNCHANGED executed
         \/ /\ s.sh.line # <<>>
            /\ Len(executed) < typist.maxcommands
            /\ executed' = Append(executed, s.sh.line)
            /\ \/ Becomes([r EXCEPT !.sh.is_paging = TRUE, !.tty = Lost])
               \/ Becomes(Prompted([r EXCEPT !.sh.is_paging = FALSE]))

(* shell_read_nowait_paging() finds the pager gone. *)
PagerEnds ==
  /\ shell.is_paging
  /\ ~ahead
  /\ Edit(Prompted([State EXCEPT !.sh.is_paging = FALSE, !.tty = Blank]))

-----------------------------------------------------------------------------
(* Telnet. `client` reads the bytes as the client means them (RFC 854, 855):*)
(* IAC and an option command take one more byte, IAC SB begins a            *)
(* subnegotiation that IAC SE ends, IAC and any other byte is a command.    *)
(* Each key function says where it finds a client in step with the shell,   *)
(* and where the client is next. A client elsewhere is astray: after IAC    *)
(* within an escape sequence, a doubled IAC (a byte 255) or any other       *)
(* command within a subnegotiation, IAC SE outside of one. Options and the  *)
(* start of a subnegotiation are logged on the operator's terminal.         *)
Telnet(keymap, k, at, next, s) ==
  /\ Key(keymap, k)
  /\ client' = IF client.at = at THEN [client EXCEPT !.at = next] ELSE Astray
  /\ Becomes(s)
  /\ UNCHANGED executed

vty_shell_keyfunc_iac_start ==
  \/ Telnet("normal", "IAC", "text", "iac", Mapped(State, "iac_1"))
  \/ Telnet("subnego", "IAC", "sub", "subiac", Mapped(State, "iac_1"))

Options == {"DO", "WILL", "DONT", "WONT"}

vty_shell_keyfunc_telnet_cmd ==
  \E k \in Options : Telnet("iac_1", k, "iac", "opt", Mapped(State, "iac_2"))

(* The option of a command, and every command without one. *)
vty_shell_keyfunc_telnet_opt ==
  LET s == [Mapped(State, "normal") EXCEPT !.tty = Lost]
  IN  \E k \in typist.keys :
        \/ Telnet("iac_2", k, "opt", "text", s)
        \/ k \notin Options \cup {"SB", "SE"} /\ Telnet("iac_1", k, "iac", "text", s)

SbStart(s) ==
  [Mapped(s, "subnego") EXCEPT !.sh.subnego_buf = <<>>, !.tty = Lost]

vty_shell_keyfunc_sb_start == Telnet("iac_1", "SB", "iac", "sub", SbStart(State))

SbByte(s, k) ==
  IF Len(s.sh.subnego_buf) < SubnegoSize
  THEN [s EXCEPT !.sh.subnego_buf = Append(@, k)] ELSE s

vty_shell_keyfunc_subnego ==
  \E k \in DOMAIN Digits :
    /\ Key("subnego", k)
    /\ Len(client.sent) <= SubnegoSize
    /\ client' = IF client.at = "sub" THEN [client EXCEPT !.sent = Append(@, k)] ELSE Astray
    /\ Becomes(SbByte(State, k))
    /\ UNCHANGED executed

(* The characters of subnego_str before its last: "len: %d [", and " %#hhx" *)
(* of each byte, which prints 0x before every value but 0.                  *)
Dumped(b) ==
  LET nonzero == {i \in DOMAIN b : Digits[b[i]] # 0}
      wide == {i \in DOMAIN b : Digits[b[i]] >= Hex}
      header == IF Len(b) < 10 THEN 8 ELSE IF Len(b) < 100 THEN 9 ELSE 10
  IN  header + 2 * Len(b) + 2 * Cardinality(nonzero) + Cardinality(wide)

(* char is signed: ((u_short) high << 8) + low, kept in an unsigned short. *)
Signed(b) == IF 2 * b >= ByteSize THEN b - ByteSize ELSE b

UShort(high, low) ==
  (Signed(Digits[high]) * ByteSize + Signed(Digits[low])) % (ByteSize * ByteSize)

(* Mutant: any subnegotiation long enough is taken for a window size. *)
XSbAnySize(s) ==
  LET b == s.sh.subnego_buf
      naws == Len(b) >= 5 /\ b[1] = "NAWS"
  IN  shell_refresh([Mapped(s, "normal") EXCEPT
        !.sh.winsize = IF naws THEN [ws_col |-> UShort(b[2], b[3]),
                                     ws_row |-> UShort(b[4], b[5])]
                       ELSE @,
        !.tty = Blank])

SbEnd(s) ==
  LET b == s.sh.subnego_buf
      naws == Len(b) = 5 /\ b[1] = "NAWS"
  IN  shell_refresh([Mapped(s, "normal") EXCEPT
        !.sh.winsize = IF naws THEN [ws_col |-> UShort(b[2], b[3]),
                                     ws_row |-> UShort(b[4], b[5])]
                       ELSE @,
        !.tty = Blank])

(* p moves on by what snprintf() would have printed: past `end`, the size   *)
(* end - p is huge, and the next snprintf() writes outside subnego_str.     *)
DumpFits == Dumped(shell.subnego_buf) <= DumpSize

IsNaws(sent) == Len(sent) = 5 /\ sent[1] = "NAWS"

vty_shell_keyfunc_sb_end ==
  /\ Key("iac_1", "SE")
  /\ UNCHANGED executed
  /\ \/ /\ DumpFits
        /\ Becomes(SbEnd(State))
        /\ client' = IF client.at # "subiac" THEN Astray
                     ELSE [at |-> "text", sent |-> <<>>,
                           window |-> IF IsNaws(client.sent) THEN client.sent ELSE client.window]
     \/ /\ ~DumpFits /\ ~overrun
        /\ overrun' = TRUE
        /\ client' = IF client.at # "subiac" THEN Astray ELSE client
        /\ UNCHANGED <<shell, terminal, failed, ahead, typist>>

-----------------------------------------------------------------------------
(* command_shell_create(), shell_escape_keyfunc_init() and                  *)
(* shell_telnet_keyfunc_init(), then the first prompt.                      *)
Init ==
  /\ shell = [line |-> <<>>, nul |-> TRUE, size |-> InitialSize, cursor |-> 0,
              cut_buffer |-> EMPTY, keymap |-> "normal", history |-> NewHistory,
              subnego_buf |-> <<>>, winsize |-> [ws_col |-> 0, ws_row |-> 0],
              is_paging |-> FALSE]
  /\ terminal = Blank
  /\ failed = FALSE
  /\ overrun = FALSE
  /\ ahead = FALSE
  /\ typist \in Typists
  /\ executed = <<>>
  /\ client = [at |-> "text", sent |-> <<>>, window |-> <<>>]

shell_input ==
  \/ shell_input_char
  \/ shell_keyfunc_move_to_begin
  \/ shell_keyfunc_backward_char
  \/ shell_keyfunc_delete_char
  \/ shell_keyfunc_move_to_end
  \/ shell_keyfunc_forward_char
  \/ shell_keyfunc_backspace
  \/ shell_keyfunc_delete_char_advanced
  \/ shell_keyfunc_kill_line
  \/ shell_keyfunc_kill_all
  \/ shell_keyfunc_yank
  \/ shell_keyfunc_delete_word_backward
  \/ shell_keyfunc_refresh
  \/ shell_keyfunc_clear_terminal
  \/ vty_shell_keyfunc_escape
  \/ vty_shell_move_word_backward
  \/ vty_shell_move_word_forward
  \/ vty_shell_delete_word_backward
  \/ vty_shell_keyfunc_normal
  \/ command_history_prev
  \/ command_history_next
  \/ command_shell_completion
  \/ command_shell_ls_candidate
  \/ command_shell_execute
  \/ vty_shell_keyfunc_iac_start
  \/ vty_shell_keyfunc_telnet_cmd
  \/ vty_shell_keyfunc_telnet_opt
  \/ vty_shell_keyfunc_sb_start
  \/ vty_shell_keyfunc_subnego
  \/ vty_shell_keyfunc_sb_end

Next == shell_input \/ PagerEnds

Spec == Init /\ [][Next]_vars

-----------------------------------------------------------------------------
(* No key sequence makes an assert() of the editor or of the history fail,  *)
(* the cursor stays within the line, and the line is terminated within its  *)
(* buffer, which the strlen() and strdup() of every later key rely on.      *)
LineSound ==
  /\ ~failed
  /\ shell.cursor \in 0 .. Len(shell.line)
  /\ shell.nul
  /\ Len(shell.line) < shell.size

(* The operator sees the line: the incremental redraws of insertion,        *)
(* deletion and motion leave the terminal as a redraw of the line would,    *)
(* with the cursor on the same character, unless the pager or the telnet    *)
(* log has written over it since the last refresh.                          *)
ScreenMatches ==
  ~shell.is_paging /\ ~terminal.lost =>
    /\ terminal.text = Trim(shell.line)
    /\ terminal.col = shell.cursor

(* The ring holds the last HISTORY_SIZE - 1 executed commands, newest at    *)
(* `last`, and nothing else, also after it has wrapped; the walk of C-P and *)
(* C-N stands on one of them or on the separator.                           *)
HistoryIsLast ==
  LET h == shell.history
      n == Min({Len(executed), HISTORY_SIZE - 1})
      Back(i) == (h.last - i + HISTORY_SIZE) % HISTORY_SIZE
  IN  /\ \A i \in 0 .. n - 1 : h.array[Back(i)] = executed[Len(executed) - i]
      /\ \A i \in n .. HISTORY_SIZE - 1 : h.array[Back(i)] = EMPTY
      /\ h.current \in {Back(i) : i \in 0 .. n - 1} \cup
                        {IF n = 0 THEN h.last ELSE HISTORY_NEXT(h.last)}

(* What a kill or a word deletion takes away is what the next yank puts     *)
(* back: the line is as it was.                                             *)
YankRestores ==
  \A cut \in {KillLine(State), KillAll(State), shell_delete_word_backward(State)} :
    cut.sh.cut_buffer # EMPTY => Yank(cut).sh.line = shell.line

WordStarts(line, delims) ==
  {i \in 0 .. Len(line) - 1 :
     line[i + 1] \notin delims /\ (i = 0 \/ line[i] \in delims)}

(* Word motion, computed by splitting the line with strsep(): backward is   *)
(* the last beginning of a word or of a path component before the cursor.   *)
(* Forward is the next beginning of a word when single blanks separate the  *)
(* words; after two blanks the code goes to the end of the line.            *)
WordMotion ==
  LET line == shell.line
      before == {i \in WordStarts(line, SubDelimiters) : i < shell.cursor}
      after == {i \in WordStarts(line, Delimiters) : i > shell.cursor}
      single == \A i \in 1 .. Len(line) - 1 : line[i] # SPACE \/ line[i + 1] # SPACE
  IN  /\ WordBackward(line, shell.cursor) = Max({0} \cup before)
      /\ single => shell_word_next_head(line, shell.cursor) = Min({Len(line)} \cup after)

(* As long as the client is not astray, the key map follows it: commands,   *)
(* options and subnegotiations of any bytes and any length are never typed  *)
(* into the line, also when the buffer is full. The window is the last one  *)
(* the client has sent, when the low bytes are below 128 (they are added as *)
(* signed chars), and only a subnegotiation longer than a window size can   *)
(* write past subnego_str.                                                  *)
TelnetInStep ==
  LET Exact(high, low, size) ==
        2 * Digits[low] < ByteSize => size = Digits[high] * ByteSize + Digits[low]
  IN  /\ client.at = "text" => shell.keymap \in {"normal", "escape_1", "escape_2"}
      /\ client.at \in {"iac", "subiac"} => shell.keymap = "iac_1"
      /\ client.at = "opt" => shell.keymap = "iac_2"
      /\ client.at = "sub" => shell.keymap = "subnego"
      /\ client.window # <<>> =>
           /\ Exact(client.window[2], client.window[3], shell.winsize.ws_col)
           /\ Exact(client.window[4], client.window[5], shell.winsize.ws_row)
      /\ overrun /\ client.at # "astray" => Len(client.sent) > 5

=============================================================================
