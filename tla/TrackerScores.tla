----------------------------- MODULE TrackerScores -----------------------------
(* A score between the scale of the program, 0 to 10, and the scale a      *)
(* tracker or its account uses (internal/tracker/scores.go).  A score is   *)
(* held in thirtieths of a point: no conversion makes a smaller part.      *)
EXTENDS Integers

Point == 30

\* readScore: what the tracker shows, on the scale of the program.
ReadScore(scale, native) ==
    CASE scale \in {"POINT_100", "mangabaka"} -> native \div 10
      [] scale = "POINT_5" -> native * 2
      [] scale = "POINT_3" -> (native * 10) \div 3
      [] scale = "kitsu" /\ native > 10 * Point -> native \div 2
      [] OTHER -> native

Clamp(value, low, high) == IF value < low THEN low ELSE IF value > high THEN high ELSE value
RoundClamp(value, low, high) == Clamp(((value + Point \div 2) \div Point) * Point, low, high)

\* The place of a score among bounds: in points, and each bound exclusive or not.
Faces(score) == IF score <= 0 THEN 0 ELSE IF 2 * score <= 7 * Point THEN 1 ELSE IF score <= 6 * Point THEN 2 ELSE 3
Stars(score) ==
    IF score <= 0 THEN 0
    ELSE IF score < 3 * Point THEN 1 ELSE IF score < 5 * Point THEN 2
    ELSE IF score < 7 * Point THEN 3 ELSE IF score < 9 * Point THEN 4 ELSE 5

\* Mutant of WriteScore: a point is rounded away before the scale is stretched.
WriteRounded(scale, score) ==
    CASE scale \in {"POINT_100", "mangabaka"} -> RoundClamp(score, 0, 10 * Point) * 10
      [] scale = "POINT_5" -> Stars(score) * Point
      [] scale = "POINT_3" -> Faces(score) * Point
      [] scale \in {"POINT_10_DECIMAL", "mangaupdates"} -> Clamp(score, 0, 10 * Point)
      [] scale = "kitsu" -> IF score <= 0 THEN 0 ELSE RoundClamp(score * 2, 2 * Point, 20 * Point)
      [] OTHER -> RoundClamp(score, 0, 10 * Point)

\* writeScore: a score of the program, as the tracker takes it.
WriteScore(scale, score) ==
    CASE scale \in {"POINT_100", "mangabaka"} -> RoundClamp(score * 10, 0, 100 * Point)
      [] scale = "POINT_5" -> Stars(score) * Point
      [] scale = "POINT_3" -> Faces(score) * Point
      [] scale \in {"POINT_10_DECIMAL", "mangaupdates"} -> Clamp(score, 0, 10 * Point)
      [] scale = "kitsu" -> IF score <= 0 THEN 0 ELSE RoundClamp(score * 2, 2 * Point, 20 * Point)
      [] OTHER -> RoundClamp(score, 0, 10 * Point)

=============================================================================
