--------------------------- MODULE MCObjectFiles ---------------------------
(* ObjectFiles on a small HP, with words of two cells and an INBOX with a   *)
(* file for each thing that the import tells apart.                        *)
EXTENDS ObjectFiles

Value(n) == <<n, Rest>>
Real(n) == Value(DOREAL) \o Value(n) \o <<0>>
File(name, payload) ==
  [name |-> name, directory |-> FALSE, supported |-> TRUE, header |-> "HPHP48-",
   payload |-> payload]

Listed(objects) == Value(DOLIST) \o objects \o Value(SEMI)
Directory(object) == Value(DORRP) \o <<0>> \o Value(2) \o <<0, 0>> \o object
Tagged(object) == Value(DOTAG) \o <<1, 9>> \o object
Name == Value(DOIDNT) \o <<1, 9>>

MCInbox ==
  { File(1, Value(DOCSTR) \o Value(3) \o <<9, 0>>),                 \* a spare nibble
    File(2, Directory(Listed(Name \o Tagged(Value(40)))) \o <<0>>),
    File(3, Value(DOLIST) \o Tagged(Value(40))),                    \* not ended
    File(4, Real(3) \o Value(41) \o <<0>>),                          \* more than one
    File(5, Name),                                                  \* refused
    File(6, Name \o Value(41)),                                     \* accepted
    [File(7, <<>>) EXCEPT !.header = "other"],
    [File(8, Real(4) \o <<0>>) EXCEPT !.supported = FALSE],
    [File(9, Real(4) \o <<0>>) EXCEPT !.directory = TRUE] }

(* Two blocks, of which the stack refers to the second, a name, and a       *)
(* return stack longer than the smallest allocation, so that the copies    *)
(* overlap.  Imports put objects of the other kinds on the stack.          *)
Block(object) == <<0>> \o object \o Value(Len(object) + 3)
Calls == Value(2000) \o Value(2001) \o Value(2002) \o Value(2003) \o Value(2004)
Start == Block(Real(1)) \o Block(Name) \o Calls
MCBootHp ==
  LET ram == Start \o [i \in 1 .. 20 |-> 0] \o Value(10) \o Value(0) \o <<0>>
  IN [ram |-> [x \in 1 .. 50 |-> ram[x]],
      temptop |-> 16, rsktop |-> 26, dsktop |-> 46, editline |-> 50, avmem |-> 10]

(* Nothing reads free memory before writing it, so two states that differ  *)
(* only in what is left there count as one.                                *)
View ==
  << [hp EXCEPT !.ram = [x \in Addr |->
        IF x \in hp.rsktop .. hp.dsktop - 1 THEN 0 ELSE @[x]]],
     selected, final, temp, job, transfer, export, status, torn, imports, exports >>
=============================================================================
