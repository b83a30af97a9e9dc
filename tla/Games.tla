------------------------------- MODULE Games -------------------------------
(***************************************************************************)
(* The Prism games of the desktop (src/kernel/src/games.rs): the hub that  *)
(* chooses, pauses and paces a game, and the rules of Snake, Pong,         *)
(* Breakout and Memory.  The desktop loop calls tick while the Games       *)
(* window is in front and hands it keys and clicks; drawing is left out.   *)
(* Coordinates, speeds and limits are the code's; the field, the start and *)
(* the capacity of Snake and the width of a Pong score are constants.      *)
(***************************************************************************)
EXTENDS Integers, Sequences, FiniteSets

CONSTANTS SNAKE_WIDTH, SNAKE_HEIGHT, SNAKE_CAPACITY, FoodAhead,
          SCORE_MAX,         \* u8::MAX of the Pong scores
          TSC_HZ_GAMES, Points, Elapsed

VARIABLES hub,               \* mode, paused, the time since last_tick
          board,             \* the state of the four games
          since, gap         \* history: time since a game moved; if the last
                             \* step was a move, the time before it, else 0

gameVars == <<hub, board, since, gap>>

\* The tick count that covers the milliseconds, rounded up and never zero.
ticks_from_millis(hz, ms) ==
    LET ticks == (hz * ms + 999) \div 1000 IN IF ticks = 0 THEN 1 ELSE ticks

interval ==
    [Snake    |-> ticks_from_millis(TSC_HZ_GAMES, 1200),
     Pong     |-> ticks_from_millis(TSC_HZ_GAMES, 120),
     Breakout |-> ticks_from_millis(TSC_HZ_GAMES, 90)]

AtLeast(low, n) == IF n < low THEN low ELSE n
AtMost(high, n) == IF n > high THEN high ELSE n
Between(low, high, n) == AtLeast(low, AtMost(high, n))

-----------------------------------------------------------------------------
(* Snake: the body is a sequence of cells, head first. *)

NewSnake ==
    LET x == SNAKE_WIDTH \div 2
        y == SNAKE_HEIGHT \div 2
    IN  [body |-> << <<x, y>>, <<x - 1, y>>, <<x - 2, y>> >>,
         dir |-> <<1, 0>>, next |-> <<1, 0>>, food |-> <<x + FoodAhead, y>>,
         score |-> 0, alive |-> TRUE, started |-> FALSE]

BoardCells(body) == {body[i] : i \in 1..Len(body)}

\* Mutant: a turn is compared with the direction turned to last.
MutantTurn(s, d) ==
    [s EXCEPT !.started = TRUE,
              !.next = IF d # <<-s.next[1], -s.next[2]>> THEN d ELSE s.next]

\* A turn straight back is refused against the direction last moved in.
turn(s, d) ==
    [s EXCEPT !.started = TRUE,
              !.next = IF d # <<-s.dir[1], -s.dir[2]>> THEN d ELSE s.next]

Candidate(seed, attempt) ==
    <<(seed * 7 + attempt * 13) % SNAKE_WIDTH, (seed * 5 + attempt * 17) % SNAKE_HEIGHT>>

\* The first candidate cell off the body; none of them leaves the food in place.
PlaceFood(s) ==
    LET seed == s.score + Len(s.body) * 11
        free == {a \in 0..SNAKE_WIDTH * SNAKE_HEIGHT - 1 : Candidate(seed, a) \notin BoardCells(s.body)}
    IN  IF free = {} THEN s
        ELSE [s EXCEPT !.food = Candidate(seed, CHOOSE a \in free : \A b \in free : a <= b)]

\* The head may enter the cell that the tail is about to leave.
Crashes(s, cell) ==
    \/ cell[1] \notin 0..SNAKE_WIDTH - 1
    \/ cell[2] \notin 0..SNAKE_HEIGHT - 1
    \/ \E i \in 1..Len(s.body) - 1 : s.body[i] = cell

snake_tick(s) ==
    LET moved == [s EXCEPT !.dir = s.next]
        cell  == <<s.body[1][1] + s.next[1], s.body[1][2] + s.next[2]>>
        ate   == cell = s.food
        grows == ate /\ Len(s.body) < SNAKE_CAPACITY
        tail  == IF grows THEN Len(s.body) ELSE Len(s.body) - 1
        slid  == [moved EXCEPT !.body = <<cell>> \o SubSeq(s.body, 1, tail),
                               !.score = IF grows THEN @ + 10 ELSE @]
    IN  CASE ~s.alive         -> s
          [] s.alive /\ Crashes(s, cell) -> [moved EXCEPT !.alive = FALSE]
          [] OTHER            -> IF ate THEN PlaceFood(slid) ELSE slid

-----------------------------------------------------------------------------
(* Pong.  The sum of the two u8 scores is checked arithmetic: past         *)
(* SCORE_MAX the build panics, which "halted" records.                     *)

NewPong ==
    [x |-> 500, y |-> 300, vx |-> -18, vy |-> 13, player |-> 230, cpu |-> 230,
     player_score |-> 0, cpu_score |-> 0, halted |-> FALSE]

serve(p, direction) ==
    IF p.player_score + p.cpu_score > SCORE_MAX THEN [p EXCEPT !.halted = TRUE]
    ELSE [p EXCEPT !.x = 500, !.y = 300, !.vx = 18 * direction,
                   !.vy = IF (p.player_score + p.cpu_score) % 2 = 0 THEN 13 ELSE -13]

Walls(p) ==
    LET y == p.y + p.vy
    IN  [p EXCEPT !.x = p.x + p.vx, !.y = Between(0, 590, y),
                  !.vy = IF y <= 0 \/ y >= 590 THEN -@ ELSE @]

FollowBall(p) ==
    [p EXCEPT !.cpu = IF p.y > @ + 45 THEN AtMost(460, @ + 12)
                      ELSE IF p.y < @ + 25 THEN AtLeast(0, @ - 12) ELSE @]

Paddles(p) ==
    LET left == IF p.x <= 45 /\ p.vx < 0 /\ p.y \in p.player..p.player + 140
                  THEN [p EXCEPT !.vx = -@, !.x = 46] ELSE p
    IN  IF left.x >= 935 /\ left.vx > 0 /\ left.y \in left.cpu..left.cpu + 140
          THEN [left EXCEPT !.vx = -@, !.x = 934] ELSE left

pong_tick(pong) ==
    LET p == Paddles(FollowBall(Walls(pong)))
    IN  CASE p.x < 0    -> serve([p EXCEPT !.cpu_score = AtMost(SCORE_MAX, @ + 1)], 1)
          [] p.x > 1000 -> serve([p EXCEPT !.player_score = AtMost(SCORE_MAX, @ + 1)], -1)
          [] OTHER      -> p

-----------------------------------------------------------------------------
(* Breakout: "gone" is the set of cleared bits of blocks. *)

NewBreakout ==
    [x |-> 500, y |-> 430, vx |-> 13, vy |-> -15, paddle |-> 360, gone |-> {}, alive |-> TRUE]

Sides(b) ==
    LET x == b.x + b.vx
        y == b.y + b.vy
    IN  [b EXCEPT !.x = Between(0, 980, x), !.vx = IF x <= 0 \/ x >= 980 THEN -@ ELSE @,
                  !.y = AtLeast(0, y),      !.vy = IF y <= 0 THEN -@ ELSE @]

HitBlock(b) ==
    LET bit == AtMost(3, (b.y * 4) \div 230) * 8 + AtMost(7, (b.x * 8) \div 1000)
    IN  IF b.y < 230 /\ bit \notin b.gone
          THEN [b EXCEPT !.gone = @ \cup {bit}, !.vy = -@] ELSE b

HitPaddle(b) ==
    LET left == (b.paddle * 500) \div 800
    IN  IF b.y >= 540 /\ b.vy > 0 /\ (b.x * 590) \div 1000 \in left..left + 100
          THEN [b EXCEPT !.vy = -@, !.y = 539] ELSE b

breakout_tick(b) ==
    LET moved == HitPaddle(HitBlock(Sides(b)))
    IN  IF ~b.alive THEN b
        ELSE [moved EXCEPT !.alive = ~(moved.y > 620 \/ Cardinality(moved.gone) = 32)]

-----------------------------------------------------------------------------
(* Memory: 16 cards, indexed from 0; 255 is no card. *)

NoCard == 255
Values == <<0, 1, 2, 3, 4, 5, 6, 7, 3, 6, 1, 5, 0, 7, 4, 2>>
value(card) == Values[card + 1]

NewMemory == [matched |-> {}, first |-> NoCard, second |-> NoCard]

Reveal(m, card) ==
    CASE m.first = NoCard -> [m EXCEPT !.first = card]
      [] m.first = card   -> m
      [] m.first \notin {NoCard, card} /\ value(m.first) = value(card) ->
           [matched |-> m.matched \cup {m.first, card}, first |-> NoCard, second |-> NoCard]
      [] OTHER -> [m EXCEPT !.second = card]

memory_click(m, x, y) ==
    LET card == ((y - 100) \div 76) * 4 + (x - 92) \div 112
    IN  IF x \notin 92..539 \/ y \notin 100..403 THEN m
        ELSE IF card \in m.matched THEN m
        ELSE Reveal(IF m.second # NoCard
                      THEN [m EXCEPT !.first = NoCard, !.second = NoCard] ELSE m, card)

-----------------------------------------------------------------------------
(* The hub. *)

Fresh == [Snake |-> NewSnake, Pong |-> NewPong, Breakout |-> NewBreakout, Memory |-> NewMemory]

GamesInit ==
    /\ hub = [mode |-> "Menu", paused |-> FALSE, waited |-> 0]
    /\ board = Fresh
    /\ since = interval.Snake /\ gap = 0

Begin(mode) ==
    /\ hub' = [hub EXCEPT !.mode = mode, !.paused = FALSE]
    /\ board' = IF mode = "Menu" THEN board ELSE [board EXCEPT ![mode] = Fresh[mode]]
    /\ gap' = 0 /\ UNCHANGED since

\* Keys 1-4 start a game, m returns to the menu, r restarts the game in play.
ChooseKey == \E mode \in {"Menu", "Snake", "Pong", "Breakout", "Memory"} : Begin(mode)
RestartKey == Begin(hub.mode)

PauseKey ==
    /\ hub.mode # "Menu"
    /\ hub' = [hub EXCEPT !.paused = ~@]
    /\ gap' = 0 /\ UNCHANGED <<board, since>>

Directions4 == {<<0, -1>>, <<0, 1>>, <<-1, 0>>, <<1, 0>>}

\* The arrows steer the game in play, paused or not.
ArrowKey ==
    /\ \/ /\ hub.mode = "Snake"
          /\ \E d \in Directions4 : board' = [board EXCEPT !.Snake = turn(@, d)]
       \/ /\ hub.mode = "Pong"
          /\ \E step \in {-70, 70} : board' = [board EXCEPT !.Pong.player = Between(0, 460, @ + step)]
       \/ /\ hub.mode = "Breakout"
          /\ \E step \in {-45, 45} : board' = [board EXCEPT !.Breakout.paddle = Between(0, 800, @ + step)]
    /\ gap' = 0 /\ UNCHANGED <<hub, since>>

\* Memory plays by clicks; in the menu a click on a card starts its game.
handle_click ==
    \/ /\ hub.mode = "Memory"
       /\ \E p \in Points : board' = [board EXCEPT !.Memory = memory_click(@, p[1], p[2])]
       /\ gap' = 0 /\ UNCHANGED <<hub, since>>
    \/ /\ hub.mode = "Menu"
       /\ \E mode \in {"Snake", "Pong", "Breakout", "Memory"} : Begin(mode)

Played(mode) ==
    CASE mode = "Snake"    -> [board EXCEPT !.Snake = snake_tick(@)]
      [] mode = "Pong"     -> [board EXCEPT !.Pong = pong_tick(@)]
      [] mode = "Breakout" -> [board EXCEPT !.Breakout = breakout_tick(@)]

\* The hub stands still: the menu, a pause, or a snake not yet steered.
Rests == \/ hub.mode = "Menu" \/ hub.paused
         \/ hub.mode = "Snake" /\ ~board.Snake.started

\* One turn of the desktop loop, dt after the one before.  Waiting longer
\* than the longest interval changes nothing more, so "waited" stops there.
tick(dt) ==
    LET waited == hub.waited + dt
    IN  IF ~Rests /\ hub.mode # "Memory" /\ waited >= interval[hub.mode]
          THEN /\ hub' = [hub EXCEPT !.waited = 0]
               /\ board' = Played(hub.mode)
               /\ since' = 0 /\ gap' = AtMost(interval.Snake, since + dt)
          ELSE /\ hub' = [hub EXCEPT !.waited = IF Rests THEN 0
                                                ELSE AtMost(interval.Snake, waited)]
               /\ since' = AtMost(interval.Snake, since + dt) /\ gap' = 0 /\ UNCHANGED board

GameTick == ~board.Pong.halted /\ \E dt \in Elapsed : tick(dt)

GamesNext == ChooseKey \/ RestartKey \/ PauseKey \/ ArrowKey \/ handle_click \/ GameTick

-----------------------------------------------------------------------------
(* Snake stays a snake: its cells are distinct cells of the field and the  *)
(* food lies off the body, although the search for food only visits the    *)
(* cells its two strides reach and a full snake no longer grows.           *)
SnakeWellFormed ==
    LET s == board.Snake
    IN  /\ Cardinality(BoardCells(s.body)) = Len(s.body)
        /\ \A c \in BoardCells(s.body) : c[1] \in 0..SNAKE_WIDTH - 1 /\ c[2] \in 0..SNAKE_HEIGHT - 1
        /\ s.food \notin BoardCells(s.body)

(* However many arrows are pressed between two moves, the living snake is  *)
(* never steered into its own neck.                                        *)
NeckSafe ==
    LET s == board.Snake
    IN  s.alive => <<s.body[1][1] + s.next[1], s.body[1][2] + s.next[2]>> # s.body[2]

(* The balls stay on their courts at the end of every tick and the paddles *)
(* on their rails, whatever the bounces before; a ball that has passed a   *)
(* paddle is served anew.                                                  *)
BallsInCourt ==
    LET p == board.Pong
        b == board.Breakout
    IN  /\ ~p.halted => p.x \in 0..1000 /\ p.y \in 0..590
        /\ p.x > 45 \/ p.vx < 0
        /\ p.cpu \in 0..460 /\ p.player \in 0..460
        /\ b.x \in 0..980 /\ b.y \in 0..635 /\ b.paddle \in 0..800

(* Breakout: the ball only turns in the air off a block it clears, so a    *)
(* ball above the paddle line that flies upward under cleared blocks keeps *)
(* flying: each step that turns it clears exactly one block or touches a   *)
(* wall or the paddle.                                                     *)
BounceHasCause ==
    [][LET b == board.Breakout
           c == board'.Breakout
       IN  (gap' # 0 /\ hub.mode = "Breakout" /\ c.vy # b.vy)
             => (Cardinality(c.gone) = Cardinality(b.gone) + 1 \/ c.y \in {0, 539})]_gameVars

(* Memory: matched cards come in pairs of one value, and a card that is    *)
(* face up and waiting is not matched yet.                                 *)
MemoryPaired ==
    LET m == board.Memory
    IN  /\ \A c \in m.matched : \E d \in m.matched \ {c} : value(c) = value(d)
        /\ {m.first, m.second} \cap m.matched = {}
        /\ m.second # NoCard => m.first # NoCard /\ value(m.first) # value(m.second)

(* A game moves at most once per calibrated interval, also across pauses,  *)
(* restarts and changes of game, and never while it rests.                 *)
MovesSpaced ==
    [][gap' # 0 => ~Rests /\ gap' >= interval[hub.mode]]_gameVars

\* The four games keep to their boards and to their own rules of time.
GamesHold ==
    /\ [](SnakeWellFormed /\ NeckSafe /\ BallsInCourt /\ MemoryPaired)
    /\ BounceHasCause /\ MovesSpaced
=============================================================================
