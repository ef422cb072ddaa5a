SPECIFICATION Spec
CONSTANTS
  Session = {s1, s2}
  UC = {u1, u2}
  NoUC = none
  Operations = {"move_uc", "start_uc", "move_us", "delete_uc", "add_uc"}
  Overlapping = {"start_uc", "delete_uc", "add_uc"}
SYMMETRY Symm
PROPERTIES StoryFollows StoryClosesLast
