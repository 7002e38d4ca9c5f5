---------------------------- MODULE CommandTree ----------------------------
(***************************************************************************)
(* The command tree of lib/zcmdsh (command.c on vector.c): how commands    *)
(* are installed, and how a typed line is matched, executed and completed. *)
(*                                                                         *)
(* A word is a sequence of characters. A node is the path of words from    *)
(* the root, which is <<>>; command_match_exact() before every creation    *)
(* makes the path the node's identity. command_node_cmp() is handed        *)
(* pointers to the array slots and compares the bytes of the nodes, not    *)
(* their words, so the order of siblings is unspecified: a match is the    *)
(* SET of nodes that some order of the siblings yields.                    *)
(***************************************************************************)
EXTENDS Integers, Sequences, FiniteSets, SequencesExt

CONSTANTS
  Commands,     \* commands: [line, func]; line is a sequence of levels, a
                \*   level the sequence of alternatives of "(a|b|)", <<>> the
                \*   empty one
  Variables,    \* variable words: spec -> [pri, values]; pri as varmatch_pri(),
                \*   values the typed words it accepts
  TypedWords,   \* words an operator types
  MaxWords,     \* bound: words of a typed line
  MaxInstalled  \* bound: commands installed

LINE_PRI == 0

FILE_PRI == 2

ASSUME CommandAssumption ==
  /\ \A c \in Commands : DOMAIN c = {"line", "func"}
  /\ \A v \in DOMAIN Variables : Variables[v].pri \in -1 .. 6

VARIABLES
  nodes,      \* the nodes of the tree
  func,       \* node -> function, for the nodes that have one
  failed,     \* an assert() of vector_add() did not hold
  installed   \* ghost: the commands installed, in order

vars == <<nodes, func, failed, installed>>

NoNode == <<<<"NULL">>>>

-----------------------------------------------------------------------------
(* Installation: command_install2().                                        *)
Children(tree, parent) ==
  {w \in {Last(n) : n \in tree \ {<<>>}} : Append(parent, w) \in tree}

(* One level: the next parents are the children by each alternative, and    *)
(* the parents themselves where the level may be left out.                  *)
NextParents(parents, level) ==
  UNION { IF alternative = <<>> THEN parents
          ELSE {Append(p, alternative) : p \in parents}
          : alternative \in ToSet(level) }

(* vector_add() refuses a node that is in next_parents already. *)
Duplicates(parents, level) ==
  \/ Cardinality(ToSet(level)) # Len(level)
  \/ <<>> \in ToSet(level) /\ \E p \in parents : p # <<>> /\ Front(p) \in parents
                                                    /\ Last(p) \in ToSet(level)

Parents(line) ==
  LET at[k \in 0 .. Len(line)] ==
        IF k = 0 THEN {<<>>} ELSE NextParents(at[k - 1], line[k])
  IN  at

(* Nodes that exist are reused; the last parents get the function, also     *)
(* when an earlier command has given them one.                              *)
command_install2(tree, c) ==
  LET at == Parents(c.line)
  IN  [nodes |-> tree.nodes \cup UNION {at[k] : k \in DOMAIN at},
       func |-> [n \in at[Len(c.line)] |-> c.func] @@ tree.func]

-----------------------------------------------------------------------------
(* Matching one word against the children of a node.                        *)
is_command_match_variable(spec, word) ==
  spec \in DOMAIN Variables /\ word \in Variables[spec].values

is_command_match_regular(spec, word) == IsPrefix(word, spec)

is_command_match(spec, word) ==
  is_command_match_variable(spec, word) \/ is_command_match_regular(spec, word)

(* is_command_node_variable() knows neither <WORD> nor A.B.C.D/M. *)
is_command_node_variable(spec) ==
  spec \in DOMAIN Variables /\ Variables[spec].pri \in 0 .. 5

Best(specs) ==
  {v \in specs : \A u \in specs : Variables[u].pri <= Variables[v].pri}

(* Mutant: the first of several prefix matches is taken. *)
XMatchFirst(children, word) ==
  LET var == {w \in children : is_command_match_variable(w, word)}
      reg == {w \in children : is_command_match_regular(w, word)}
  IN  IF reg = {} THEN Best(var) ELSE reg

(* The best variable if no word has the prefix; else the only match. *)
command_match_unique(children, word) ==
  LET var == {w \in children : is_command_match_variable(w, word)}
      reg == {w \in children : is_command_match_regular(w, word)}
  IN  IF reg = {} THEN Best(var)
      ELSE IF var = {} /\ Cardinality(reg) = 1 THEN reg
      ELSE {}

(* Mutant: several matches are refused even if one is spelled in full. *)
XMatchNoExact(children, word) == command_match_unique(children, word)

command_match_unique_exact(children, word) ==
  IF command_match_unique(children, word) # {}
  THEN command_match_unique(children, word)
  ELSE children \cap {word}

-----------------------------------------------------------------------------
(* Walking a line down the tree: the nodes reached after each word, NoNode  *)
(* where no node matches. The walk stops at <LINE> and <FILE>, and before   *)
(* an empty word, which is what follows the last blank of a line.           *)
Stops(node) ==
  /\ node # <<>>
  /\ Last(node) \in DOMAIN Variables
  /\ Variables[Last(node)].pri \in {LINE_PRI, FILE_PRI}

Step(tree, node, word) ==
  LET match == command_match_unique_exact(Children(tree, node), word)
  IN  IF node = NoNode THEN {NoNode}
      ELSE IF match = {} THEN {NoNode}
      ELSE {Append(node, w) : w \in match}

Walk(tree, line) ==
  LET empty == {k \in DOMAIN line : line[k] = <<>>}
      end == IF empty = {} THEN Len(line) ELSE Min(empty) - 1
      at[k \in 0 .. end] ==
        IF k = 0 THEN {<<>>}
        ELSE UNION { IF Stops(n) THEN {n} ELSE Step(tree, n, line[k]) : n \in at[k - 1] }
  IN  at[end]

(* command_execute(): the function run, if any. *)
command_execute(tree, line) == {tree.func[n] : n \in Walk(tree.nodes, line) \cap DOMAIN tree.func}

(* command_match_node(), as '?' uses it. *)
command_match_node(tree, line) == Walk(tree, line)

(* What '?' lists below the words before the last one. *)
Candidates(tree, line) ==
  UNION { {Append(n, w) : w \in {w \in Children(tree, n) : is_command_match(w, Last(line))}}
          : n \in command_match_node(tree, Front(line)) \ {NoNode} }

(* command_complete_common(): what the matching keywords have in common,    *)
(* after the word. Keywords that strncmp() rejects do not count.            *)
Common(tree, node, word) ==
  {w \in Children(tree, node) : ~is_command_node_variable(w) /\ IsPrefix(word, w)}

Rest(word, text) == SubSeq(text, Len(word) + 1, Len(text))

(* Mutant: the first keyword is taken whole. *)
XCompleteFirst(tree, node, word) ==
  LET m == Common(tree, node, word)
  IN  IF m = {} THEN <<>> ELSE Rest(word, CHOOSE w \in m : TRUE)

command_complete_common(tree, node, word) ==
  LET m == Common(tree, node, word)
  IN  IF m = {} THEN <<>> ELSE Rest(word, LongestCommonPrefix(m))

(* command_complete() of a line whose words before the last one match: the  *)
(* rest of a unique word, or the common part; without the blank it adds     *)
(* after a unique word. The names <FILE> completes are the file system's.   *)
command_complete(tree, line) ==
  LET node == CHOOSE n \in Walk(tree, Front(line)) : TRUE
      word == Last(line)
      match == command_match_unique_exact(Children(tree, node), word)
  IN  IF match = {} THEN command_complete_common(tree, node, word)
      ELSE LET w == CHOOSE w \in match : TRUE
           IN  IF is_command_node_variable(w) THEN <<>> ELSE Rest(word, w)

-----------------------------------------------------------------------------
Tree == [nodes |-> nodes, func |-> func]

(* command_set_create() *)
Init ==
  /\ nodes = {<<>>}
  /\ func = <<>>
  /\ failed = FALSE
  /\ installed = <<>>

Install(c) ==
  LET tree == command_install2(Tree, c)
  IN  /\ Len(installed) < MaxInstalled
      /\ \A i \in DOMAIN installed : installed[i] # c
      /\ nodes' = tree.nodes
      /\ func' = tree.func
      /\ failed' = (failed \/ \E k \in DOMAIN c.line :
                                Duplicates(Parents(c.line)[k - 1], c.line[k]))
      /\ installed' = Append(installed, c)

Next == \E c \in Commands : Install(c)

Spec == Init /\ [][Next]_vars

-----------------------------------------------------------------------------
(* Only the last word of a formatted line may be empty. *)
Lines ==
  {line \in UNION {[1 .. n -> TypedWords] : n \in 1 .. MaxWords} :
     \A i \in 1 .. Len(line) - 1 : line[i] # <<>>}

(* What an operator reads in the commands: their alternatives in full, and  *)
(* the function of the latest command that has one.                         *)
Paths(c) == Parents(c.line)[Len(c.line)]

Latest(path) ==
  LET is == {i \in DOMAIN installed : path \in Paths(installed[i])}
  IN  installed[CHOOSE i \in is : \A j \in is : j <= i].func

AllPaths == UNION {Paths(installed[i]) : i \in DOMAIN installed}

(* Words that some installed command has at the place of path[i]. *)
Beside(path, i) ==
  {p[i] : p \in {p \in AllPaths : Len(p) >= i /\ SubSeq(p, 1, i - 1) = SubSeq(path, 1, i - 1)}}

(* Spelled in full: keywords whole, and values that begin no keyword that   *)
(* could stand there instead ("set nettlp psmem-size 256" is refused,       *)
(* because 256 begins 256M).                                                *)
Spells(line, path) ==
  /\ path # <<>> /\ Last(line) # <<>>
  /\ Len(line) = Len(path) \/ (Stops(path) /\ Len(line) > Len(path))
  /\ \A i \in DOMAIN path :
       \/ path[i] \notin DOMAIN Variables /\ line[i] = path[i]
       \/ /\ is_command_match_variable(path[i], line[i])
          /\ \A w \in Beside(path, i) \ DOMAIN Variables : ~IsPrefix(line[i], w)

(* Whatever else is installed, before or after, with words that begin alike *)
(* or variables that match too, a command spelled in full runs, and it runs *)
(* the function installed last for it; and no installation meets a          *)
(* duplicate in its vector of parents.                                      *)
FullSpelling ==
  /\ ~failed
  /\ \A line \in Lines : \A path \in AllPaths :
       Spells(line, path) => command_execute(Tree, line) = {Latest(path)}

Abbreviates(line, path) ==
  /\ Len(line) = Len(path)
  /\ \A i \in DOMAIN path : is_command_match(path[i], line[i])

(* An abbreviation is never a guess: if a line runs a function although it  *)
(* abbreviates the commands of two, then where the two differ it spells the *)
(* one that runs in full.                                                   *)
NoGuess ==
  \A line \in Lines :
    LET run == Walk(nodes, line) \cap DOMAIN func
    IN  /\ Cardinality(run) <= 1
        /\ \A p \in run : \A q \in AllPaths :
             Abbreviates(line, p) /\ Abbreviates(line, q) /\ p # q =>
               LET i == CHOOSE i \in DOMAIN p : p[i] # q[i] /\ \A j \in 1 .. i - 1 : p[j] = q[j]
               IN  line[i] = p[i]

(* Completing the last word loses and adds no candidate: '?' lists the same *)
(* words before and after TAB, unless the word was spelled in full already, *)
(* or a <WORD> could stand there (its name would be inserted), or a value   *)
(* where nothing is typed yet (TAB goes for the keywords); and provided the *)
(* words before it match (else an earlier word is completed).               *)
CompletionKeeps ==
  \A line \in Lines :
    LET before == Walk(nodes, Front(line))
        children == UNION {Children(nodes, n) : n \in before \ {NoNode}}
        words == {w \in children : w \in DOMAIN Variables => is_command_node_variable(w)}
        done == Append(Front(line), Last(line) \o command_complete(nodes, line))
    IN  /\ NoNode \notin before
        /\ children = words
        /\ Last(line) \notin children
        /\ Last(line) = <<>> => words \cap DOMAIN Variables = {}
        /\ \A n \in before : ~Stops(n)
        => Candidates(nodes, done) = Candidates(nodes, line)

=============================================================================
