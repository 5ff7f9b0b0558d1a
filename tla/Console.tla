------------------------------ MODULE Console ------------------------------
(***************************************************************************)
(* The shell at the end of the keyboard buffer.  The buffer is the bounded *)
(* FIFO that RingBuffer.tla implements; its bytes carry where they come    *)
(* from: a key, or do_save2, which puts 0x0A and 0x0D into the keyboard    *)
(* buffer after it has stored a file the Pico received (commands.c).  The  *)
(* editor takes 0x0A (KEY_ENTER is '\r') for an ordinary character.        *)
(***************************************************************************)
EXTENDS LineEditor

CONSTANT Capacity   \* RING_BUFFER_SIZE - 1

VARIABLES
  queue,     \* the keyboard buffer
  last,      \* the byte getchar returned last
  endedBy    \* where the end came from of the last line executed that has
             \* something the user typed or recalled in it

allVars == <<vars, queue, last, endedBy>>

Byte(c, s) == [key |-> c, src |-> s]
Sources    == {"keyboard", "do_save2"}
NoByte     == Byte("none", "keyboard")

Buffer == INSTANCE BoundedFifo
            WITH Bytes <- {Byte(c, "keyboard") : c \in Keys},
                 LF <- Byte("lf", "do_save2"), CR <- Byte("enter", "do_save2")

ConsoleInit == Init /\ Buffer!Init /\ endedBy = "nobody"

Int3Handler ==
  /\ \E c \in Keys : Buffer!Put(Byte(c, "keyboard"))
  /\ UNCHANGED <<vars, endedBy>>

do_save2 == Buffer!PutLine /\ UNCHANGED <<vars, endedBy>>

(* getchar returns a byte and the loop of readline_with_history handles it. *)
ReadKey ==
  /\ Buffer!Get
  /\ Key(last'.key)
  /\ endedBy' = IF last'.key = "enter" /\ (\E i \in 1..Len(buf) : buf[i] # "lf")
                THEN last'.src ELSE endedBy

ConsoleNext == Int3Handler \/ do_save2 \/ ReadKey

ConsoleSpec == ConsoleInit /\ [][ConsoleNext]_allVars

-----------------------------------------------------------------------------
(* shell_history.c:62-63: "Le uma linha de comando do console [...] Retorna *)
(* quando Enter e' pressionado."  A command line that is executed was ended *)
(* by the Enter key.                                                        *)
OnlyEnterRunsTheLine == endedBy \in {"nobody", "keyboard"}
=============================================================================
