---------------------------- MODULE MCVisualizer ----------------------------
\* Updates of the view nest two deep; the speed is normal or doubled.
EXTENDS Visualizer

ThreeSources == {1, 2, 3}
TwoSpeeds == {1, 2}
=============================================================================
